---------------------------- MODULE Spec2Model ----------------------------
(***************************************************************************)
(* Granular access control engine (class GranularAccess): the bundle       *)
(* lifecycle, the recursive scan of user actions, the per-session caches   *)
(* and the per-step Ruler of a bundle.                                     *)
(*                                                                         *)
(* The engine is driven by a host that may call its public methods in any  *)
(* order; a call that throws leaves the state as the code leaves it and    *)
(* records the error in `last`.                                            *)
(***************************************************************************)
EXTENDS Integers, Sequences, FiniteSets, TLC

(***************************************************************************)
(* Bounds of the model.                                                    *)
(***************************************************************************)
NumSessions == 2        \* doc sessions 1..NumSessions; session 1 is an owner
MaxUserActions == 2     \* length of a list of user actions
MaxNested == 1          \* length of the payload of a container action
MaxDocActions == 4      \* number of DocActions of a bundle whose steps are computed
MaxRows == 2            \* row ids 1..MaxRows of the table "R"
MaxPruneRows == 3       \* row ids of the table "R" handed to the pruning functions
MaxSections == 2        \* rows of _grist_Views_section

(***************************************************************************)
(* Helpers on sequences.                                                   *)
(***************************************************************************)
SeqsUpTo(S, n) == UNION { [1..k -> S] : k \in 0..n }

Reverse(s) == [i \in 1..Len(s) |-> s[Len(s) + 1 - i]]

(***************************************************************************)
(* Tables and action names.                                                *)
(***************************************************************************)
AclTables == {"_grist_ACLRules", "_grist_ACLResources"}

isAclTable(tableId) == tableId \in AclTables

STRUCTURAL_TABLES ==
  {"_grist_Tables", "_grist_Tables_column", "_grist_Views",
   "_grist_Views_section", "_grist_Views_section_field",
   "_grist_ACLResources", "_grist_ACLRules"}

ContainerNames == {"ApplyUndoActions", "ApplyDocActions"}

SchemaActionNames ==
  {"AddTable", "RemoveTable", "RenameTable", "AddColumn", "RemoveColumn",
   "RenameColumn", "ModifyColumn"}

isSchemaAction(a) == a.name \in SchemaActionNames

getTableId(a) == a.tableId

(***************************************************************************)
(* User actions.  A user action is [name, tableId, sub]: a plain action    *)
(* has an empty `sub`; a container (ApplyUndoActions, ApplyDocActions)     *)
(* carries its nested list in `sub` (a[1] of the code) and has no table.   *)
(***************************************************************************)
Leaf(name, tableId) == [name |-> name, tableId |-> tableId, sub |-> <<>>]

Container(name, sub) == [name |-> name, tableId |-> "", sub |-> sub]

UserLeaves ==
  { Leaf("AddRecord", "_grist_ACLRules"),
    Leaf("UpdateRecord", "T") }

UserContainers ==
  { Container(n, sub) : n \in ContainerNames, sub \in SeqsUpTo(UserLeaves, MaxNested) }

\* Containers of containers: one more level of nesting.
UserContainers2 ==
  { Container(n, sub) : n \in ContainerNames,
                        sub \in SeqsUpTo(UserContainers, 1) \ {<<>>} }

UserActionLists == SeqsUpTo(UserLeaves \cup UserContainers \cup UserContainers2, MaxUserActions)

\* scanActionsRecursively(userActions, (a) => isAclTable(String(a[1]))):
\* the loop returns the result of the first container it meets.
RECURSIVE scanActionsRecursively(_)
scanActionsRecursively(actions) ==
  IF actions = <<>> THEN FALSE
  ELSE LET a == Head(actions) IN
       IF a.name \in ContainerNames THEN scanActionsRecursively(a.sub)
       ELSE IF isAclTable(a.tableId) THEN TRUE
       ELSE scanActionsRecursively(Tail(actions))


\* Whether some user action, at any position and any depth, names an ACL table.
RECURSIVE TargetsAclTable(_)
TargetsAclTable(actions) ==
  \E i \in 1..Len(actions) :
    IF actions[i].name \in ContainerNames
      THEN TargetsAclTable(actions[i].sub)
      ELSE isAclTable(actions[i].tableId)

(***************************************************************************)
(* DocActions.  A DocAction is [name, tableId, row]: `row` is the row id   *)
(* for the ACL tables and the new cell value for the table "A"; it is 0    *)
(* where the model does not look at it.  "T" is a user table, "A" the      *)
(* table that user-attribute rules look up.                                *)
(***************************************************************************)
DocAction(name, tableId, row) == [name |-> name, tableId |-> tableId, row |-> row]

RuleIds == {1, 2}       \* rows of _grist_ACLRules: rule 2 is a user-attribute rule
ResIds == {1}           \* rows of _grist_ACLResources: rule 1 is on resource 1
\* A row of table "A": its id and its cell Level.
AttrRow(id, level) == [id |-> id, Level |-> level]

\* The rows a user-attribute rule may find in table "A" for a user: the bundles
\* of the lifecycle change the cell of row 1.
AttrValues == {AttrRow(1, 0), AttrRow(1, 1)}

DocActionAlphabet ==
  { DocAction(n, "_grist_ACLRules", r) : n \in {"AddRecord", "RemoveRecord"}, r \in RuleIds }
  \cup { DocAction(n, "_grist_ACLResources", q) : n \in {"AddRecord", "RemoveRecord"}, q \in ResIds }
  \cup { DocAction("UpdateRecord", "_grist_Tables_column", 0),
         DocAction("UpdateRecord", "T", 0),
         DocAction("AddColumn", "T", 0) }
  \cup { DocAction("UpdateRecord", "A", v) : v \in AttrValues }

(***************************************************************************)
(* The document: the two ACL tables (as sets of row ids) and the cell of   *)
(* table "A" that a user-attribute rule looks up.                          *)
(***************************************************************************)
EmptyMeta == [rules |-> {}, resources |-> {}]

Metas == [rules : SUBSET RuleIds, resources : SUBSET ResIds]

\* TableData.receiveAction on the structural tables of a DocData.
receiveMetaAction(meta, a) ==
  IF a.tableId = "_grist_ACLRules" THEN
    [meta EXCEPT !.rules = IF a.name = "AddRecord" THEN @ \cup {a.row}
                           ELSE IF a.name = "RemoveRecord" THEN @ \ {a.row}
                           ELSE @]
  ELSE IF a.tableId = "_grist_ACLResources" THEN
    [meta EXCEPT !.resources = IF a.name = "AddRecord" THEN @ \cup {a.row}
                               ELSE IF a.name = "RemoveRecord" THEN @ \ {a.row}
                               ELSE @]
  ELSE meta

\* DocData.receiveAction on the whole document.
receiveAction(dd, a) ==
  [meta |-> receiveMetaAction(dd.meta, a),
   attrVal |-> IF a.tableId = "A" /\ a.name = "UpdateRecord" THEN a.row ELSE dd.attrVal]

RECURSIVE receiveActions(_, _)
receiveActions(dd, actions) ==
  IF actions = <<>> THEN dd
  ELSE receiveActions(receiveAction(dd, Head(actions)), Tail(actions))

RECURSIVE receiveMetaActions(_, _)
receiveMetaActions(meta, actions) ==
  IF actions = <<>> THEN meta
  ELSE receiveMetaActions(receiveMetaAction(meta, Head(actions)), Tail(actions))

\* The data engine lowers user actions to DocActions that change the document:
\* it adds no row that exists and removes none that does not.
ChangesDoc(dd, a) ==
  IF a.tableId \in AclTables \/ a.tableId = "A" THEN receiveAction(dd, a) # dd ELSE TRUE

RECURSIVE ValidDocActions(_, _)
ValidDocActions(dd, actions) ==
  IF actions = <<>> THEN TRUE
  ELSE ChangesDoc(dd, Head(actions))
       /\ ValidDocActions(receiveAction(dd, Head(actions)), Tail(actions))

\* The inverse of one DocAction on the document it is applied to.
InverseAction(dd, a) ==
  IF a.name = "AddRecord" THEN [a EXCEPT !.name = "RemoveRecord"]
  ELSE IF a.name = "RemoveRecord" THEN [a EXCEPT !.name = "AddRecord"]
  ELSE IF a.name = "AddColumn" THEN [a EXCEPT !.name = "RemoveColumn"]
  ELSE IF a.tableId = "A" THEN [a EXCEPT !.row = dd.attrVal]
  ELSE a

\* The undo stream of a bundle: undo[i] inverts docActions[i]; the bundle is
\* undone by applying the reversed stream.
RECURSIVE UndoOf(_, _)
UndoOf(dd, actions) ==
  IF actions = <<>> THEN <<>>
  ELSE <<InverseAction(dd, Head(actions))>>
       \o UndoOf(receiveAction(dd, Head(actions)), Tail(actions))

(***************************************************************************)
(* Sessions.                                                               *)
(***************************************************************************)
Sessions == 1..NumSessions

\* getDocSessionAccess: the role the session's authorizer reports.
getDocSessionAccess(s) == IF s = 1 THEN "owners" ELSE IF s % 2 = 0 THEN "editors" ELSE "viewers"

\* isOwner, through _getNominalAccess (no session carries link parameters).
isOwner(s) == getDocSessionAccess(s) = "owners"

(***************************************************************************)
(* ACLRuleCollection: what a collection read from the ACL tables exposes.  *)
(* A collection is the contents `rc` of the ACL tables it was read from.   *)
(***************************************************************************)
\* ruleError: rule 1 names resource 1, which must exist.
ruleError(rc) == 1 \in rc.rules /\ 1 \notin rc.resources

\* haveRules: some rule other than a user-attribute rule was read.  Rule 3 hides
\* from non-owners the rows of table "R" whose cell `a` is "x"; rule 4 hides the
\* column `b` of table "R" from non-owners; rule 5 hides from them every column
\* of table "R" but `a`.
haveRules(rc) == ~ruleError(rc) /\ rc.rules \cap {1, 3, 4, 5} # {}

\* getUserAttributeRules: the tables the user-attribute rules look up.
UserAttributeTables(rc) == IF ~ruleError(rc) /\ 2 \in rc.rules THEN {"A"} ELSE {}

\* checkDocEntities: every resource names a live table and column; no action of
\* the model removes the table of resource 1.
checkDocEntities(rc) == TRUE

\* PermissionInfo.getTableAccess, on the axis of an action: rule 1 makes table "T"
\* owner-only; rule 3 makes the read access of table "R" depend on the row, rule
\* 4 and rule 5 on the column; the default rules let owners and editors do everything and
\* viewers read.
TableAccess(rc, s, axis, tableId) ==
  IF isOwner(s) THEN "allow"
  ELSE IF tableId = "T" /\ ~ruleError(rc) /\ 1 \in rc.rules THEN "deny"
  ELSE IF tableId = "R" /\ axis = "read" /\ ~ruleError(rc) /\ 3 \in rc.rules THEN "mixed"
  ELSE IF tableId = "R" /\ axis = "read" /\ ~ruleError(rc) /\ rc.rules \cap {4, 5} # {}
  THEN "mixedColumns"
  ELSE IF getDocSessionAccess(s) = "editors" \/ axis = "read" THEN "allow"
  ELSE "deny"

\* getAccessForActionType: the permission axis an action is checked on.
getAccessForActionType(a) ==
  IF a.tableId \in STRUCTURAL_TABLES THEN "schemaEdit"
  ELSE IF a.name \in {"UpdateRecord", "BulkUpdateRecord"} THEN "update"
  ELSE IF a.name \in {"RemoveRecord", "BulkRemoveRecord"} THEN "delete"
  ELSE IF a.name \in {"AddRecord", "BulkAddRecord"} THEN "create"
  ELSE "schemaEdit"


(***************************************************************************)
(* State of the engine and of its host.                                    *)
(***************************************************************************)
VARIABLES
  activeBundle,            \* _activeBundle, or NoBundle
  steps,                   \* _steps: the cached steps of the bundle, or NoSteps
  userAttributesMap,       \* _userAttributesMap: session -> UserAttributes
  prevUserAttributesMap,   \* _prevUserAttributesMap, or NoPrev
  ruler,                   \* _ruler: [rc: rule collection, cache: sessions with a PermissionInfo]
  docData,                 \* the live document (_docData and the database)
  recoveryMode,            \* _recoveryMode, fixed at construction
  last,                    \* the last call and how it ended
  verified,                \* history: canApplyBundle has passed for the active bundle
  preMeta                  \* history: the ACL tables when the active bundle began

vars == <<activeBundle, steps, userAttributesMap, prevUserAttributesMap, ruler,
          docData, recoveryMode, last, verified, preMeta>>

\* _activeBundle = null; the other fields are not read while `active` is FALSE.
NoBundle ==
  [active |-> FALSE, docSession |-> 0, userActions |-> <<>>, docActions |-> <<>>,
   undo |-> <<>>, applied |-> FALSE, hasDeliberateRuleChange |-> FALSE]

\* _steps = null.
NoSteps == [has |-> FALSE, failed |-> FALSE, applied |-> FALSE, list |-> <<>>, rulers |-> <<>>]

\* _steps holding the rejected promise of a computation without a bundle.
FailedSteps == [has |-> TRUE, failed |-> TRUE, applied |-> FALSE, list |-> <<>>, rulers |-> <<>>]

NoPrev == [has |-> FALSE]

EmptyMap == [s \in {} |-> [rows |-> <<>>]]

Call(op, result) == [op |-> op, result |-> result]

(***************************************************************************)
(* User resolution and the per-session caches.                             *)
(***************************************************************************)
\* _getUserAttributes: the entry of the session, created when missing.
getUserAttributes(uam, s) == IF s \in DOMAIN uam THEN uam[s] ELSE [rows |-> <<>>]

\* A resolver that raises the ruleError in recovery mode too.
getUserThrowsInRecovery(rc, recovery) == ruleError(rc)

\* _getUser throws the ruleError of the live rules outside recovery mode.
getUserThrows(rc, recovery) == ruleError(rc) /\ ~recovery

\* The user-attribute map after _getUser(s): the entry exists, and a user-attribute
\* rule with no cached row looks its row up in the database.
mapAfterGetUser(uam, s, rc, recovery, dd) ==
  LET attrs == getUserAttributes(uam, s)
      rows == IF getUserThrows(rc, recovery) \/ UserAttributeTables(rc) = {} \/ attrs.rows # <<>>
              THEN attrs.rows
              ELSE <<dd.attrVal>>
  IN [t \in DOMAIN uam \cup {s} |-> IF t = s THEN [rows |-> rows] ELSE uam[t]]

\* Ruler.getAccess on the live Ruler: a miss caches the PermissionInfo promise and
\* resolves the user; a hit does neither.
mapAfterGetAccess(uam, rl, s, recovery, dd) ==
  IF s \in rl.cache THEN uam ELSE mapAfterGetUser(uam, s, rl.rc, recovery, dd)

cacheAfterGetAccess(rl, s) == [rl EXCEPT !.cache = @ \cup {s}]

(***************************************************************************)
(* Steps of a bundle (_getUncachedSteps).  A step is [action, hasRuler,    *)
(* ruler]: `ruler` is 0 for the live Ruler (this._ruler, or no step.ruler) *)
(* and i > 0 for the i-th Ruler created while the steps were computed,     *)
(* kept in `rulers` with the tables it was read from and its own cache.    *)
(***************************************************************************)
needsMeta(docActions) ==
  \E i \in 1..Len(docActions) :
    isSchemaAction(docActions[i]) \/ docActions[i].tableId \in STRUCTURAL_TABLES

\* A loop that builds a new Ruler right after every ACL action, without batching.
replaceRulerUnbatched(a, replaceRuler) == replaceRuler

\* The loop's decision to build a new Ruler at an action: the last action was of
\* an ACL table and this one is not.
shouldReplaceRuler(a, replaceRuler) == ~isAclTable(a.tableId) /\ replaceRuler

RECURSIVE stepLoop(_, _, _, _, _, _)
stepLoop(actions, meta, cur, replaceRuler, rulers, needMeta) ==
  IF actions = <<>> THEN [list |-> <<>>, rulers |-> rulers]
  ELSE LET a == Head(actions)
           meta2 == IF needMeta /\ a.tableId \in STRUCTURAL_TABLES
                    THEN receiveMetaAction(meta, a) ELSE meta
           rebuild == needMeta /\ shouldReplaceRuler(a, replaceRuler)
           rulers2 == IF rebuild THEN Append(rulers, [rc |-> meta2, cache |-> {}]) ELSE rulers
           cur2 == IF rebuild THEN Len(rulers2) ELSE cur
           replace2 == needMeta /\ isAclTable(a.tableId)
           rest == stepLoop(Tail(actions), meta2, cur2, replace2, rulers2, needMeta)
       IN [list |-> <<[action |-> a, hasRuler |-> needMeta, ruler |-> cur2]>> \o rest.list,
           rulers |-> rest.rulers]

getUncachedSteps(bundle, dd) ==
  LET needMeta == needsMeta(bundle.docActions)
      meta0 == IF bundle.applied THEN receiveMetaActions(dd.meta, Reverse(bundle.undo))
               ELSE dd.meta
      backOff == needMeta /\ bundle.applied
      loop == stepLoop(bundle.docActions, meta0, IF backOff THEN 1 ELSE 0, FALSE,
                       IF backOff THEN <<[rc |-> meta0, cache |-> {}]>> ELSE <<>>, needMeta)
  IN IF ~bundle.active THEN FailedSteps
     ELSE [has |-> TRUE, failed |-> FALSE, applied |-> bundle.applied,
           list |-> loop.list, rulers |-> loop.rulers]

\* A _getSteps that computes the steps on every request.
getStepsAfresh(st, bundle, dd) == getUncachedSteps(bundle, dd)

\* _getSteps: computed on the first request, reused afterwards.
getSteps(st, bundle, dd) == IF st.has THEN st ELSE getUncachedSteps(bundle, dd)

\* The rule collection a step is evaluated with (_getStepAccess, _getRuler).
stepRules(st, k, rl) == IF st.list[k].ruler = 0 THEN rl.rc ELSE st.rulers[st.list[k].ruler].rc

\* Sessions cached by the Ruler of step k before a request.
stepCached(st, k, rl, s) ==
  IF st.list[k].ruler = 0 THEN s \in rl.cache ELSE s \in st.rulers[st.list[k].ruler].cache

\* The steps after _getStepAccess(s) on every step: each Ruler made for the steps
\* and used by some step caches the session.
stepsAfterAccess(st, s) ==
  [st EXCEPT !.rulers = [i \in 1..Len(st.rulers) |->
     IF \E k \in 1..Len(st.list) : st.list[k].ruler = i
     THEN [st.rulers[i] EXCEPT !.cache = @ \cup {s}] ELSE st.rulers[i]]]

usesLiveRuler(st) == \E k \in 1..Len(st.list) : st.list[k].ruler = 0

someStepMisses(st, rl, s) == \E k \in 1..Len(st.list) : ~stepCached(st, k, rl, s)


(***************************************************************************)
(* Outgoing filter of one bundle for one viewer, by table: an action of a  *)
(* table the viewer may not read is dropped, and so is an action of an     *)
(* ACL table for a viewer without the AccessRules permission (owners have  *)
(* it by default).                                                         *)
(***************************************************************************)
hasAccessRulesPermission(s) == isOwner(s)

keepsOutgoing(st, k, rl, s) ==
  /\ TableAccess(stepRules(st, k, rl), s, "read", st.list[k].action.tableId) # "deny"
  /\ isAclTable(st.list[k].action.tableId) => hasAccessRulesPermission(s)

RECURSIVE filterFrom(_, _, _, _)
filterFrom(st, k, rl, s) ==
  IF k > Len(st.list) THEN <<>>
  ELSE (IF keepsOutgoing(st, k, rl, s) THEN <<st.list[k].action>> ELSE <<>>)
       \o filterFrom(st, k + 1, rl, s)

\* RecordView.toJSON: the cells of the record by column; the row id is not one.
toJSON(rec) == [c \in DOMAIN rec \ {"id"} |-> rec[c]]

\* A check that finds the attributes of every viewer as they were.
userAttributesNeverChanged(prev, uam, s) == FALSE

\* _checkUserAttributes: some attribute of the viewer differs from the one put aside.
userAttributesChanged(prev, uam, s) ==
  /\ prev.has
  /\ s \in DOMAIN prev.map
  /\ LET after == getUserAttributes(uam, s)
     IN /\ after.rows # <<>>
        /\ \/ prev.map[s].rows = <<>>
           \/ toJSON(prev.map[s].rows[1]) # toJSON(after.rows[1])

(***************************************************************************)
(* getGranularAccessForBundle: begin a bundle.                             *)
(***************************************************************************)
\* A begin that never finds a bundle in progress.
neverInProgress(bundle) == FALSE

\* The guard of line 163.
bundleInProgress(bundle) == bundle.active

newBundle(s, docActions, undo, userActions) ==
  [active |-> TRUE, docSession |-> s, userActions |-> userActions,
   docActions |-> docActions, undo |-> undo, applied |-> FALSE,
   hasDeliberateRuleChange |-> scanActionsRecursively(userActions)]

getGranularAccessForBundle(s, docActions, userActions) ==
  /\ IF bundleInProgress(activeBundle)
     THEN /\ last' = Call("getGranularAccessForBundle", "Error: bundle in progress")
          /\ UNCHANGED <<activeBundle, verified, preMeta>>
     ELSE /\ activeBundle' = newBundle(s, docActions, UndoOf(docData, docActions), userActions)
          /\ last' = Call("getGranularAccessForBundle", "ok")
          /\ verified' = FALSE
          /\ preMeta' = docData.meta
  /\ UNCHANGED <<steps, userAttributesMap, prevUserAttributesMap, ruler, docData,
                 recoveryMode>>

(***************************************************************************)
(* update: rebuild the rules from the document, clear both caches.         *)
(***************************************************************************)
rulerAfterUpdate(dd) == [rc |-> dd.meta, cache |-> {}]

update ==
  /\ ruler' = rulerAfterUpdate(docData)
  /\ userAttributesMap' = EmptyMap
  /\ last' = Call("update", "ok")
  /\ UNCHANGED <<activeBundle, steps, prevUserAttributesMap, docData, recoveryMode,
                 verified, preMeta>>

(***************************************************************************)
(* canApplyBundle.                                                         *)
(***************************************************************************)
\* The owner check of lines 209-211.
deniedRuleChange(bundle) == bundle.hasDeliberateRuleChange /\ ~isOwner(bundle.docSession)

\* _checkIncomingDocAction on every step: some action is denied on its axis.
incomingDenied(st, rl, s) ==
  \E k \in 1..Len(st.list) :
    TableAccess(stepRules(st, k, rl), s, getAccessForActionType(st.list[k].action),
                st.list[k].action.tableId) = "deny"

\* A validation of the rules of the document as it is, the bundle left out.
rulesUnloadableLive(dd, docActions) ==
  /\ \E i \in 1..Len(docActions) : isAclTable(docActions[i].tableId)
  /\ (ruleError(dd.meta) \/ ~checkDocEntities(dd.meta))

\* Lines 225-249: the rules as they would be after the bundle cannot be loaded.
rulesUnloadable(dd, docActions) ==
  /\ \E i \in 1..Len(docActions) : isAclTable(docActions[i].tableId)
  /\ LET tmp == receiveMetaActions(dd.meta, docActions)
     IN ruleError(tmp) \/ ~checkDocEntities(tmp)

\* A canApplyBundle that drops the bundle it refuses.
bundleDroppedOnFailure(bundle, result) == IF result = "ok" THEN bundle ELSE NoBundle

\* The bundle after the call: canApplyBundle throws (lines 210, 242, 247, and
\* _checkIncomingDocAction at line 214) or returns, and assigns nothing to
\* _activeBundle.
bundleAfterCanApply(bundle, result) == bundle

canApplyBundle ==
  IF ~activeBundle.active
  THEN /\ last' = Call("canApplyBundle", "Error: no active bundle")
       /\ UNCHANGED <<activeBundle, steps, userAttributesMap, prevUserAttributesMap, ruler,
                      docData, recoveryMode, verified, preMeta>>
  ELSE IF deniedRuleChange(activeBundle)
  THEN /\ last' = Call("canApplyBundle", "ACL_DENY")
       /\ activeBundle' = bundleAfterCanApply(activeBundle, "ACL_DENY")
       /\ UNCHANGED <<steps, userAttributesMap, prevUserAttributesMap, ruler,
                      docData, recoveryMode, verified, preMeta>>
  ELSE LET s == activeBundle.docSession
           check == haveRules(ruler.rc) /\ activeBundle.docActions # <<>>
           st == IF check THEN getSteps(steps, activeBundle, docData) ELSE steps
           miss == check /\ someStepMisses(st, ruler, s)
           userFails == miss /\ getUserThrows(ruler.rc, recoveryMode)
           result == IF check /\ st.failed THEN "Error: no active bundle (steps)"
                     ELSE IF userFails THEN "ruleError"
                     ELSE IF check /\ incomingDenied(st, ruler, s) THEN "ACL_DENY"
                     ELSE IF recoveryMode THEN "ok"
                     ELSE IF rulesUnloadable(docData, activeBundle.docActions) THEN "ApiError 400"
                     ELSE "ok"
       IN /\ steps' = IF check THEN stepsAfterAccess(st, s) ELSE steps
          /\ userAttributesMap' =
               IF miss THEN mapAfterGetUser(userAttributesMap, s, ruler.rc, recoveryMode, docData)
               ELSE userAttributesMap
          /\ ruler' = IF check /\ usesLiveRuler(st) THEN cacheAfterGetAccess(ruler, s) ELSE ruler
          /\ last' = Call("canApplyBundle", result)
          /\ verified' = (verified \/ result = "ok")
          /\ activeBundle' = bundleAfterCanApply(activeBundle, result)
          /\ UNCHANGED <<prevUserAttributesMap, docData, recoveryMode, preMeta>>

(***************************************************************************)
(* appliedBundle, called by the host once it has applied the DocActions    *)
(* to the document: the host's commit is part of the step.                 *)
(***************************************************************************)
attrChange(docActions, rc) ==
  \E i \in 1..Len(docActions) : docActions[i].tableId \in UserAttributeTables(rc)

schemaChange(docActions) == \E i \in 1..Len(docActions) : isSchemaAction(docActions[i])

\* An appliedBundle that flips the flag instead of setting it.
appliedToggled(bundle) == ~bundle.applied

\* applied after the call (line 264).
appliedAfter(bundle) == TRUE

\* An appliedBundle that puts the attributes aside whatever the bundle touches.
prevAlwaysPutAside(prev, uam, docActions, rc) == [has |-> TRUE, map |-> uam]

\* _prevUserAttributesMap after the call (lines 265-273).
prevAfterApplied(prev, uam, docActions, rc) ==
  IF haveRules(rc) /\ attrChange(docActions, rc) THEN [has |-> TRUE, map |-> uam] ELSE prev

\* An appliedBundle that allocates a fresh map whatever the bundle touches.
mapAlwaysFresh(uam, docActions, rc) == EmptyMap

\* _userAttributesMap after the call (lines 265-273).
mapAfterApplied(uam, docActions, rc) ==
  IF haveRules(rc) /\ attrChange(docActions, rc) THEN EmptyMap ELSE uam

\* An appliedBundle that never clears the cache of the Ruler.
rulerCacheKept(rl, docActions) == rl

\* The Ruler after the call (lines 265, 275-278): clearCache with rules, after a
\* change of an attribute table or of the schema.
rulerAfterApplied(rl, docActions) ==
  IF haveRules(rl.rc) /\ (attrChange(docActions, rl.rc) \/ schemaChange(docActions))
  THEN [rl EXCEPT !.cache = {}] ELSE rl

appliedBundle ==
  IF ~activeBundle.active
  THEN /\ last' = Call("appliedBundle", "Error: no active bundle")
       /\ UNCHANGED <<activeBundle, steps, userAttributesMap, prevUserAttributesMap, ruler,
                      docData, recoveryMode, verified, preMeta>>
  ELSE LET da == activeBundle.docActions
       IN /\ docData' = IF activeBundle.applied THEN docData ELSE receiveActions(docData, da)
          /\ activeBundle' = [activeBundle EXCEPT !.applied = appliedAfter(activeBundle)]
          /\ prevUserAttributesMap' =
               prevAfterApplied(prevUserAttributesMap, userAttributesMap, da, ruler.rc)
          /\ userAttributesMap' = mapAfterApplied(userAttributesMap, da, ruler.rc)
          /\ ruler' = rulerAfterApplied(ruler, da)
          /\ last' = Call("appliedBundle", "ok")
          /\ UNCHANGED <<steps, recoveryMode, verified, preMeta>>


(***************************************************************************)
(* sendDocUpdateForBundle starts a broadcast; the broadcaster then calls   *)
(* _filterDocUpdate for the subscribers, before the host's next call.      *)
(***************************************************************************)
sendDocUpdateForBundle ==
  /\ last' = Call("sendDocUpdateForBundle",
                  IF ~activeBundle.active THEN "Error: no active bundle" ELSE "ok")
  /\ UNCHANGED <<activeBundle, steps, userAttributesMap, prevUserAttributesMap, ruler,
                 docData, recoveryMode, verified, preMeta>>

broadcasting ==
  \/ last.op = "sendDocUpdateForBundle" /\ last.result = "ok"
  \/ last.op = "_filterDocUpdate"

\* Line 579: the message goes out as it is.
passesUnfiltered(bundle, rc) == ~haveRules(rc) /\ ~bundle.hasDeliberateRuleChange

\* Line 302: the viewer is told to reload.
reloadForRuleChange(bundle) == bundle.hasDeliberateRuleChange

filterDocUpdate(s) ==
  /\ broadcasting
  /\ IF ~activeBundle.active
     THEN /\ last' = Call("_filterDocUpdate", "Error: no active bundle")
          /\ UNCHANGED <<steps, userAttributesMap, ruler>>
     ELSE IF passesUnfiltered(activeBundle, ruler.rc)
     THEN /\ last' = Call("_filterDocUpdate", "message")
          /\ UNCHANGED <<steps, userAttributesMap, ruler>>
     ELSE \* filterActionGroup resolves the viewer's access first.
          LET uam1 == mapAfterGetAccess(userAttributesMap, ruler, s, recoveryMode, docData)
              ruler1 == cacheAfterGetAccess(ruler, s)
              userFails == getUserThrows(ruler.rc, recoveryMode)
              reload == reloadForRuleChange(activeBundle)
                          \/ userAttributesChanged(prevUserAttributesMap, uam1, s)
              filter == ~userFails /\ ~reload /\ activeBundle.docActions # <<>>
              st == IF filter THEN getSteps(steps, activeBundle, docData) ELSE steps
              miss == filter /\ someStepMisses(st, ruler1, s)
              sent == IF filter THEN filterFrom(st, 1, ruler1, s) ELSE <<>>
          IN /\ userAttributesMap' =
                  IF miss THEN mapAfterGetUser(uam1, s, ruler.rc, recoveryMode, docData) ELSE uam1
             /\ ruler' = ruler1
             /\ steps' = IF filter THEN stepsAfterAccess(st, s) ELSE steps
             /\ last' = IF userFails THEN Call("_filterDocUpdate", "ruleError")
                        ELSE IF reload THEN Call("_filterDocUpdate", "NEED_RELOAD")
                        ELSE IF filter /\ st.failed
                          THEN Call("_filterDocUpdate", "Error: no active bundle (steps)")
                        ELSE IF sent = <<>> THEN Call("_filterDocUpdate", "null")
                        ELSE Call("_filterDocUpdate", "filtered")
  /\ UNCHANGED <<activeBundle, prevUserAttributesMap, docData, recoveryMode,
                 verified, preMeta>>

(***************************************************************************)
(* finishedBundle.                                                         *)
(***************************************************************************)
\* An _updateRules that rebuilds after a schema action with or without rules.
updateRulesIgnoresHaveRules(docActions, rc) ==
  \/ \E i \in 1..Len(docActions) : isAclTable(docActions[i].tableId)
  \/ schemaChange(docActions)

\* _updateRules: the bundle makes the engine rebuild its rules.
updateRulesRebuilds(docActions, rc) ==
  \/ \E i \in 1..Len(docActions) : isAclTable(docActions[i].tableId)
  \/ haveRules(rc) /\ schemaChange(docActions)

\* A finishedBundle without the early return.
alwaysSomethingToFinish(bundle) == FALSE

\* Line 287: nothing to finish.
nothingToFinish(bundle) == ~bundle.active

\* A finishedBundle that keeps the steps.
stepsKept == steps

\* Lines 292-294: what is left of the steps, the attributes put aside and the bundle.
stepsAfterFinished == NoSteps

prevAfterFinished == NoPrev

bundleAfterFinished == NoBundle

finishedBundle ==
  IF nothingToFinish(activeBundle)
  THEN /\ last' = Call("finishedBundle", "ignored")
       /\ UNCHANGED <<activeBundle, steps, userAttributesMap, prevUserAttributesMap, ruler,
                      docData, recoveryMode, verified, preMeta>>
  ELSE LET rebuild == activeBundle.applied
                        /\ updateRulesRebuilds(activeBundle.docActions, ruler.rc)
       IN /\ ruler' = IF rebuild THEN rulerAfterUpdate(docData) ELSE ruler
          /\ userAttributesMap' = IF rebuild THEN EmptyMap ELSE userAttributesMap
          /\ steps' = stepsAfterFinished
          /\ prevUserAttributesMap' = prevAfterFinished
          /\ activeBundle' = bundleAfterFinished
          /\ last' = Call("finishedBundle", "ok")
          /\ verified' = FALSE
          /\ preMeta' = EmptyMeta
          /\ UNCHANGED <<docData, recoveryMode>>

(***************************************************************************)
(* The engine after construction, on any document, and its host.           *)
(***************************************************************************)
Documents == [meta : Metas, attrVal : AttrValues]

Init ==
  /\ activeBundle = NoBundle
  /\ steps = NoSteps
  /\ userAttributesMap = EmptyMap
  /\ prevUserAttributesMap = NoPrev
  /\ ruler = [rc |-> EmptyMeta, cache |-> {}]
  /\ docData \in Documents
  /\ recoveryMode \in BOOLEAN
  /\ last = Call("constructor", "ok")
  /\ verified = FALSE
  /\ preMeta = EmptyMeta

\* The user actions of the bundles of the lifecycle: no ACL table, an ACL table
\* named directly, inside a container, and after a container.
UserActionSamples ==
  { <<Leaf("UpdateRecord", "T")>>,
    <<Leaf("AddRecord", "_grist_ACLRules")>>,
    <<Container("ApplyUndoActions", <<Leaf("AddRecord", "_grist_ACLRules")>>)>>,
    <<Container("ApplyDocActions", <<>>), Leaf("AddRecord", "_grist_ACLRules")>> }

\* The DocActions of the bundles of the lifecycle: none, or one of any kind.
DocActionSamples == {<<>>} \cup { <<a>> : a \in DocActionAlphabet }

Begin ==
  IF bundleInProgress(activeBundle)
  THEN getGranularAccessForBundle(1, <<>>, <<>>)
  ELSE \E s \in Sessions, ua \in UserActionSamples, da \in DocActionSamples :
         /\ ValidDocActions(docData, da)
         /\ getGranularAccessForBundle(s, da, ua)

FilterDocUpdate == \E s \in Sessions : filterDocUpdate(s)

Next ==
  \/ Begin
  \/ update
  \/ canApplyBundle
  \/ appliedBundle
  \/ sendDocUpdateForBundle
  \/ FilterDocUpdate
  \/ finishedBundle

Spec == Init /\ [][Next]_vars

(***************************************************************************)
(* The scan of the user actions: bundles begun with every list of user     *)
(* actions up to the bounds, on one document.                              *)
(***************************************************************************)
InitScan == Init /\ docData = [meta |-> EmptyMeta, attrVal |-> AttrRow(1, 0)] /\ ~recoveryMode

BeginScan ==
  IF bundleInProgress(activeBundle)
  THEN getGranularAccessForBundle(1, <<>>, <<>>)
  ELSE \E ua \in UserActionLists : getGranularAccessForBundle(1, <<>>, ua)

NextScan ==
  \/ BeginScan
  \/ finishedBundle

SpecScan == InitScan /\ [][NextScan]_vars

(***************************************************************************)
(* The steps of a bundle: bundles of up to MaxDocActions DocActions, whose *)
(* steps are requested before or after the host has applied them.          *)
(***************************************************************************)
\* DocActions of rule 1 and its resource, of the columns, and of the table "T".
StepAlphabet == { a \in DocActionAlphabet : a.tableId # "A" /\ a.row # 2 }

DocActionLists == SeqsUpTo(StepAlphabet, MaxDocActions)

InitSteps == Init /\ ~recoveryMode /\ docData.attrVal = AttrRow(1, 0) /\ 2 \notin docData.meta.rules

BeginSteps ==
  IF bundleInProgress(activeBundle)
  THEN getGranularAccessForBundle(1, <<>>, <<>>)
  ELSE \E da \in DocActionLists :
         /\ ValidDocActions(docData, da)
         /\ getGranularAccessForBundle(1, da, <<Leaf("UpdateRecord", "T")>>)

\* _getSteps, as _getStep requests it.
requestSteps ==
  /\ steps' = getSteps(steps, activeBundle, docData)
  /\ last' = Call("_getSteps", IF steps'.failed THEN "Error: no active bundle (steps)" ELSE "ok")
  /\ UNCHANGED <<activeBundle, userAttributesMap, prevUserAttributesMap, ruler, docData,
                 recoveryMode, verified, preMeta>>

NextSteps ==
  \/ BeginSteps
  \/ requestSteps
  \/ appliedBundle
  \/ finishedBundle

SpecSteps == InitSteps /\ [][NextSteps]_vars

(***************************************************************************)
(* Rows of the user table "R".  A table (TableDataAction) and a data       *)
(* action on "R" are [name, tableId, rowIds, colValues]: `rowIds` is the   *)
(* list of row ids (a[2]; one id for the actions that are not Bulk) and    *)
(* `colValues` maps a column id to the list of its cells, one per row id   *)
(* (a[3]; of no column for a removal).                                     *)
(***************************************************************************)
RowIds == 1..MaxRows

RowCols == {"a", "b"}

CellValues == {"x", "y"}

\* The value written over a cell the viewer may not read (lines 789 and 791).
CENSORED == "CENSORED"

AddNames == {"AddRecord", "BulkAddRecord"}

UpdateNames == {"UpdateRecord", "BulkUpdateRecord"}

RemoveNames == {"RemoveRecord", "BulkRemoveRecord"}

SingleNames == {"AddRecord", "UpdateRecord", "RemoveRecord"}

\* isDataAction: the action adds, updates, removes or replaces rows.
isDataAction(a) == a.name \in AddNames \cup UpdateNames \cup RemoveNames \cup {"ReplaceTableData", "TableData"}

DataAction(name, rowIds, colValues) ==
  [name |-> name, tableId |-> "R", rowIds |-> rowIds, colValues |-> colValues]

\* getRowIdsFromDocAction, as a set.
idsOf(a) == { a.rowIds[i] : i \in DOMAIN a.rowIds }

indexOfRow(a, id) == CHOOSE i \in DOMAIN a.rowIds : a.rowIds[i] = id

\* RecordView.get on the row `id` of a table or action.
cellOf(a, id, colId) == a.colValues[colId][indexOfRow(a, id)]

SortedIds(S) ==
  CHOOSE q \in [1..Cardinality(S) -> S] :
    \A i, j \in 1..Cardinality(S) : i < j => q[i] < q[j]

\* The cells of the rows `q` in the columns `C`, row `id` holding f[id].
ColValuesOf(q, C, f) == [c \in C |-> [i \in 1..Len(q) |-> f[q[i]][c]]]

\* The tables of up to MaxRows rows, as the database returns them: the cell `a`
\* of a row is any value, its cell `b` is "x" in the rows of odd id and "y" in
\* the others.
RowsOf(S) ==
  { f \in [S -> [RowCols -> CellValues]] :
      \A id \in S : f[id]["b"] = (IF id % 2 = 1 THEN "x" ELSE "y") }

RowTables ==
  UNION { { DataAction("TableData", SortedIds(S), ColValuesOf(SortedIds(S), RowCols, f)) :
              f \in RowsOf(S) } : S \in SUBSET RowIds }

\* The ids of the list `q` that are in `keep`, in their order.
RECURSIVE selectIds(_, _)
selectIds(q, keep) ==
  IF q = <<>> THEN <<>>
  ELSE (IF Head(q) \in keep THEN <<Head(q)>> ELSE <<>>) \o selectIds(Tail(q), keep)

\* The rows `keep` of a table or action, in their order (pruneArray on the others).
keepRows(a, keep) ==
  LET q == selectIds(a.rowIds, keep)
  IN [name |-> a.name, tableId |-> a.tableId, rowIds |-> q,
      colValues |-> [c \in DOMAIN a.colValues |->
                       [i \in 1..Len(q) |-> cellOf(a, q[i], c)]]]

\* TableData.receiveAction for a data action on the table.
receiveRowAction(d, a) ==
  IF a.name \in AddNames
  THEN [name |-> d.name, tableId |-> d.tableId, rowIds |-> d.rowIds \o a.rowIds,
        colValues |-> [c \in RowCols |-> d.colValues[c] \o a.colValues[c]]]
  ELSE IF a.name \in UpdateNames
  THEN [name |-> d.name, tableId |-> d.tableId, rowIds |-> d.rowIds,
        colValues |-> [c \in RowCols |-> [i \in 1..Len(d.rowIds) |->
           IF c \in DOMAIN a.colValues /\ d.rowIds[i] \in idsOf(a)
           THEN cellOf(a, d.rowIds[i], c) ELSE d.colValues[c][i]]]]
  ELSE IF a.name = "ReplaceTableData"
  THEN [name |-> d.name, tableId |-> d.tableId, rowIds |-> a.rowIds, colValues |-> a.colValues]
  ELSE keepRows(d, idsOf(d) \ idsOf(a))

\* The data actions the data engine can produce on a table: rows added with all
\* their columns, cells of present rows updated, present rows removed; an action
\* on one row comes in both forms.
NamesFor(S, single, bulk) == IF Cardinality(S) = 1 THEN {single, bulk} ELSE {bulk}

RowActions(d) ==
  UNION { { DataAction(n, SortedIds(S), ColValuesOf(SortedIds(S), RowCols, f)) :
              f \in [S -> [RowCols -> CellValues]], n \in NamesFor(S, "AddRecord", "BulkAddRecord") } :
          S \in (SUBSET (RowIds \ idsOf(d))) \ {{}} }
  \cup UNION { UNION { { DataAction(n, SortedIds(S), ColValuesOf(SortedIds(S), C, f)) :
                           f \in [S -> [C -> CellValues]],
                           n \in NamesFor(S, "UpdateRecord", "BulkUpdateRecord") } :
                       C \in (SUBSET RowCols) \ {{}} } :
               S \in (SUBSET idsOf(d)) \ {{}} }
  \cup UNION { { DataAction(n, SortedIds(S), <<>>) : n \in NamesFor(S, "RemoveRecord", "BulkRemoveRecord") } :
               S \in (SUBSET idsOf(d)) \ {{}} }

\* A step of _getUncachedSteps with the rows of the table before and after it.
RowStep(a, rowsBefore) ==
  [action |-> a, hasRuler |-> FALSE, ruler |-> 0,
   rowsBefore |-> rowsBefore, rowsAfter |-> receiveRowAction(rowsBefore, a)]

(***************************************************************************)
(* PermissionInfo for one record of table "R": rule 3 denies non-owners    *)
(* the rows whose cell `a` is "x", rule 4 the column `b`, rule 5 every     *)
(* column but `a`.                                                         *)
(***************************************************************************)
\* getTableAccess of the PermissionInfo made for the record `id` of `data`.
RowAccess(rc, s, data, id) ==
  IF TableAccess(rc, s, "read", "R") = "allow" THEN "allow"
  ELSE IF 3 \in rc.rules /\ id \in idsOf(data) /\ cellOf(data, id, "a") = "x" THEN "deny"
  ELSE IF rc.rules \cap {4, 5} # {} THEN "mixedColumns"
  ELSE "allow"

\* getColumnAccess, on the read axis.
ColumnAccess(rc, s, colId) ==
  IF /\ TableAccess(rc, s, "read", "R") # "allow"
     /\ \/ 4 \in rc.rules /\ colId = "b"
        \/ 5 \in rc.rules /\ colId # "a"
  THEN "deny" ELSE "allow"

(***************************************************************************)
(* Row and column pruning of one outgoing action.                          *)
(***************************************************************************)
\* A check that finds no row forbidden.
getForbiddenRowsNone(rc, s, data, ids) == {}

\* _getForbiddenRows: the rows of `data`, among `ids`, the viewer may not read.
getForbiddenRows(rc, s, data, ids) ==
  { id \in idsOf(data) \cap ids : RowAccess(rc, s, data, id) = "deny" }

\* pruneArray (app/common/gutil): the array without the elements at the
\* positions `toRemove`, the others in their order.
pruneArray(arr, toRemove) ==
  LET kept == SortedIds(DOMAIN arr \ toRemove)
  IN [j \in 1..Len(kept) |-> arr[kept[j]]]

\* A stripping that prunes the row ids and leaves the columns as they are.
removeRowsAtIdsOnly(toRemove, a) ==
  [name |-> a.name, tableId |-> a.tableId, rowIds |-> pruneArray(a.rowIds, toRemove),
   colValues |-> a.colValues]

\* _removeRowsAt on the row ids and the columns of an action: the positions
\* `toRemove` go from the row ids and from the cells of every column.
removeRowsAt(toRemove, a) ==
  [name |-> a.name, tableId |-> a.tableId, rowIds |-> pruneArray(a.rowIds, toRemove),
   colValues |-> [c \in DOMAIN a.colValues |-> pruneArray(a.colValues[c], toRemove)]]

\* Lines 1020-1023: the positions of the rows to remove, and what is left.
removeMasked(a, mask) ==
  IF pruneArray(a.rowIds, mask) = <<>> THEN <<>> ELSE <<removeRowsAt(mask, a)>>

\* _removeRows: nothing is left of an action all of whose rows go; an action on
\* one row that stays is returned as it is, a Bulk action is copied.
removeRows(a, rowIds) ==
  IF a.name \in SingleNames
  THEN (IF a.rowIds[1] \in rowIds THEN <<>> ELSE <<a>>)
  ELSE removeMasked(a, { i \in DOMAIN a.rowIds : a.rowIds[i] \in rowIds })

\* _makeAdditions: a BulkAddRecord of the rows `rowIds` as they are in `data`.
makeAdditions(data, rowIds) ==
  IF rowIds = {} THEN <<>>
  ELSE LET partialData == removeRows(data, idsOf(data) \ rowIds)
       IN IF partialData = <<>> THEN <<>>
          ELSE <<[partialData[1] EXCEPT !.name = "BulkAddRecord"]>>

\* A BulkRemoveRecord of every row of the table.
makeRemovalsOfTable(data, rowIds) ==
  IF rowIds = <<>> THEN <<>> ELSE <<DataAction("BulkRemoveRecord", data.rowIds, <<>>)>>

\* _makeRemovals: a BulkRemoveRecord of the row ids, in the order they were met.
makeRemovals(data, rowIds) ==
  IF rowIds = <<>> THEN <<>> ELSE <<DataAction("BulkRemoveRecord", rowIds, <<>>)>>

\* A loop that strips only the rows forbidden both before and after.
removalsOfBoth(a, forbiddenBefores, forbiddenAfters) ==
  { id \in idsOf(a) : id \in forbiddenBefores /\ id \in forbiddenAfters }

\* Rows stripped from the action by the loop of _pruneRows (lines 665-703).
removals(a, forbiddenBefores, forbiddenAfters) ==
  { id \in idsOf(a) :
      \/ id \in forbiddenBefores /\ id \in forbiddenAfters
      \/ id \in forbiddenBefores /\ id \notin forbiddenAfters
           /\ a.name \notin AddNames \cup {"ReplaceTableData", "TableData"}
      \/ id \notin forbiddenBefores /\ id \in forbiddenAfters /\ a.name \notin RemoveNames }

\* A loop that never sends an addition.
forceAddsNone(a, forbiddenBefores, forbiddenAfters) == {}

\* Rows sent as an addition: rows an update makes readable.
forceAdds(a, forbiddenBefores, forbiddenAfters) ==
  { id \in idsOf(a) : id \in forbiddenBefores /\ id \notin forbiddenAfters /\ a.name \in UpdateNames }

\* A loop that sends a removal for every row it strips and does not add.
forceRemovesOfStripped(a, forbiddenBefores, forbiddenAfters) ==
  { id \in idsOf(a) :
      /\ id \in forbiddenBefores \/ id \in forbiddenAfters
      /\ ~(id \in forbiddenBefores /\ id \notin forbiddenAfters /\ a.name \in AddNames \cup UpdateNames) }

\* Rows sent as a removal: rows an update makes unreadable.
forceRemoves(a, forbiddenBefores, forbiddenAfters) ==
  { id \in idsOf(a) : id \notin forbiddenBefores /\ id \in forbiddenAfters /\ a.name \in UpdateNames }

\* _filterRowsAndCells with the read check: the cells of denied columns are
\* overwritten in the action itself.
filterRowsAndCells(rc, s, a, rowsBefore, rowsAfter) ==
  [name |-> a.name, tableId |-> a.tableId, rowIds |-> a.rowIds,
   colValues |-> [c \in DOMAIN a.colValues |-> [i \in 1..Len(a.rowIds) |->
      IF RowAccess(rc, s, rowsBefore, a.rowIds[i]) \notin {"allow", "deny"}
         /\ ColumnAccess(rc, s, c) = "deny"
      THEN CENSORED ELSE a.colValues[c][i]]]]

\* Line 829: a denied row in an action that is not a removal.
unexpectedRowRemoval(rc, s, a, rowsBefore) ==
  /\ a.name \notin RemoveNames
  /\ \E id \in idsOf(a) : RowAccess(rc, s, rowsBefore, id) = "deny"

\* A pruning that treats manualSort as any other column.
pruneColumnsByAccessOnly(rc, s, a) ==
  IF a.name \in RemoveNames THEN <<a>>
  ELSE LET kept == { c \in DOMAIN a.colValues : ColumnAccess(rc, s, c) # "deny" }
       IN IF kept = {} THEN <<>>
          ELSE <<[name |-> a.name, tableId |-> a.tableId, rowIds |-> a.rowIds,
                  colValues |-> [c \in kept |-> a.colValues[c]]]>>

\* _filterColumns and _pruneColumns for a data action: removals pass, the denied
\* columns of the others are deleted from a copy.
pruneColumns(rc, s, a) ==
  IF a.name \in RemoveNames THEN <<a>>
  ELSE LET kept == { c \in DOMAIN a.colValues : c = "manualSort" \/ ColumnAccess(rc, s, c) # "deny" }
       IN IF kept = {} THEN <<>>
          ELSE <<[name |-> a.name, tableId |-> a.tableId, rowIds |-> a.rowIds,
                  colValues |-> [c \in kept |-> a.colValues[c]]]>>

\* Lines 711-713: every revised action passes through _filterRowsAndCells.
RECURSIVE scrubAll(_, _, _, _)
scrubAll(rc, s, acts, data) ==
  IF acts = <<>> THEN <<>>
  ELSE <<filterRowsAndCells(rc, s, Head(acts), data, data)>> \o scrubAll(rc, s, Tail(acts), data)

\* An end of _pruneRows that lists the removal first and the addition last.
revisedRemovalFirst(rc, s, a, rowsAfter, additions, original, removed) ==
  [revised |-> scrubAll(rc, s, removed \o original \o additions, rowsAfter),
   action |-> IF original = <<a>> /\ a.name \in SingleNames
              THEN filterRowsAndCells(rc, s, a, rowsAfter, rowsAfter) ELSE a,
   error |-> ""]

\* The end of _pruneRows (lines 705-714) for the three revised actions: what is
\* returned, and `action`, the object of the original action after the call (an
\* action on one row that stays is scrubbed itself, not a copy of it).
revisedDocActions(rc, s, a, rowsAfter, additions, original, removed) ==
  [revised |-> scrubAll(rc, s, additions \o original \o removed, rowsAfter),
   action |-> IF original = <<a>> /\ a.name \in SingleNames
              THEN filterRowsAndCells(rc, s, a, rowsAfter, rowsAfter) ELSE a,
   error |-> IF \E i \in 1..Len(additions \o original \o removed) :
                  unexpectedRowRemoval(rc, s, (additions \o original \o removed)[i], rowsAfter)
             THEN "Error: Unexpected row removal" ELSE ""]

\* The loop of _pruneRows and the three revised actions it plans.
planRevisions(rc, s, a, rowsAfter, forbiddenBefores, forbiddenAfters) ==
  revisedDocActions(rc, s, a, rowsAfter,
    makeAdditions(rowsAfter, forceAdds(a, forbiddenBefores, forbiddenAfters)),
    removeRows(a, removals(a, forbiddenBefores, forbiddenAfters)),
    makeRemovals(rowsAfter, selectIds(a.rowIds, forceRemoves(a, forbiddenBefores, forbiddenAfters))))

\* _pruneRows for a data action.
pruneRows(rc, s, step, a) ==
  planRevisions(rc, s, a, step.rowsAfter,
    getForbiddenRows(rc, s, step.rowsBefore, idsOf(a)),
    getForbiddenRows(rc, s, step.rowsAfter, idsOf(a)))

RECURSIVE pruneColumnsOfAll(_, _, _)
pruneColumnsOfAll(rc, s, acts) ==
  IF acts = <<>> THEN <<>>
  ELSE pruneColumns(rc, s, Head(acts)) \o pruneColumnsOfAll(rc, s, Tail(acts))

\* Lines 1184-1188: the revised actions of _pruneRows, their columns pruned.
prunedRowsAndColumns(rc, s, rows) ==
  [emitted |-> pruneColumnsOfAll(rc, s, rows.revised), action |-> rows.action,
   error |-> rows.error]

\* _filterOutgoingDocAction for an action on a user table.
filterOutgoingDocAction(rc, s, step, a) ==
  IF TableAccess(rc, s, "read", a.tableId) = "deny"
  THEN [emitted |-> <<>>, action |-> a, error |-> ""]
  ELSE IF TableAccess(rc, s, "read", a.tableId) = "allow"
  THEN [emitted |-> <<a>>, action |-> a, error |-> ""]
  ELSE IF TableAccess(rc, s, "read", a.tableId) = "mixedColumns"
  THEN [emitted |-> pruneColumns(rc, s, a), action |-> a, error |-> ""]
  ELSE prunedRowsAndColumns(rc, s, pruneRows(rc, s, step, a))

\* The map of filterOutgoingDocActions over the actions from the k-th on: the
\* k-th action is filtered with the k-th step, and there must be one.
RECURSIVE filterOutgoingFrom(_, _, _, _, _)
joinFiltered(rl, s, st, docActions, k, one) ==
  LET rest == filterOutgoingFrom(rl, s, st, [docActions EXCEPT ![k] = one.action], k + 1)
  IN [emitted |-> one.emitted \o rest.emitted, docActions |-> rest.docActions,
      error |-> IF one.error # "" THEN one.error ELSE rest.error]

filterOutgoingFrom(rl, s, st, docActions, k) ==
  IF k > Len(docActions) THEN [emitted |-> <<>>, docActions |-> docActions, error |-> ""]
  ELSE IF k > Len(st.list)
  THEN [emitted |-> <<>>, docActions |-> docActions, error |-> "TypeError"]
  ELSE joinFiltered(rl, s, st, docActions, k,
         filterOutgoingDocAction(stepRules(st, k, rl), s, st.list[k], docActions[k]))

\* A call of filterOutgoingDocActions with its arguments, how it ended and what
\* it returned.
FilterCall(s, docActions, message, result, emitted) ==
  [op |-> "filterOutgoingDocActions", result |-> result, docSession |-> s,
   docActions |-> docActions, message |-> message, emitted |-> emitted]

\* Lines 312-316 of filterOutgoingDocActions: `out` is the map over the actions;
\* `message` tells whether the actions are those of the broadcast message, which
\* are the bundle's own.
filterMapped(s, docActions, message, uam1, out) ==
  IF userAttributesChanged(prevUserAttributesMap, uam1, s)
  THEN /\ last' = FilterCall(s, docActions, message, "NEED_RELOAD", <<>>)
       /\ userAttributesMap' = uam1
       /\ ruler' = cacheAfterGetAccess(ruler, s)
       /\ UNCHANGED activeBundle
  ELSE /\ last' = FilterCall(s, docActions, message, IF out.error # "" THEN out.error ELSE "ok",
                             IF out.error # "" THEN <<>> ELSE out.emitted)
       /\ userAttributesMap' = IF docActions = <<>> THEN userAttributesMap ELSE uam1
       /\ ruler' = IF docActions = <<>> THEN ruler ELSE cacheAfterGetAccess(ruler, s)
       /\ activeBundle' = IF message THEN [activeBundle EXCEPT !.docActions = out.docActions]
                          ELSE activeBundle

\* filterOutgoingDocActions(docSession, docActions).
filterOutgoingDocActions(s, docActions, message) ==
  IF reloadForRuleChange(activeBundle)
  THEN /\ last' = FilterCall(s, docActions, message, "NEED_RELOAD", <<>>)
       /\ UNCHANGED <<activeBundle, userAttributesMap, ruler>>
  ELSE IF ~haveRules(ruler.rc)
  THEN /\ last' = FilterCall(s, docActions, message, "ok", docActions)
       /\ UNCHANGED <<activeBundle, userAttributesMap, ruler>>
  ELSE filterMapped(s, docActions, message,
         mapAfterGetAccess(userAttributesMap, ruler, s, recoveryMode, docData),
         filterOutgoingFrom(ruler, s, steps, docActions, 1))

(***************************************************************************)
(* Row pruning: one applied bundle of one data action on table "R", with   *)
(* its step computed, under every set of the rules 3 and 4; the broadcast  *)
(* message is filtered for the viewers in any order, and a viewer's output *)
(* can be filtered again.                                                  *)
(***************************************************************************)
RowMetas == [rules : SUBSET {3, 4}, resources : {{}}]

InitRows ==
  \E meta \in RowMetas, d \in RowTables :
    \E a \in RowActions(d) :
      /\ activeBundle = [active |-> TRUE, docSession |-> 1, userActions |-> <<>>,
                         docActions |-> <<a>>, undo |-> <<>>, applied |-> TRUE,
                         hasDeliberateRuleChange |-> FALSE]
      /\ steps = [has |-> TRUE, failed |-> FALSE, applied |-> TRUE,
                  list |-> <<RowStep(a, d)>>, rulers |-> <<>>]
      /\ userAttributesMap = EmptyMap
      /\ prevUserAttributesMap = NoPrev
      /\ ruler = [rc |-> meta, cache |-> {}]
      /\ docData = [meta |-> meta, attrVal |-> AttrRow(1, 0)]
      /\ recoveryMode = FALSE
      /\ last = Call("appliedBundle", "ok")
      /\ verified = TRUE
      /\ preMeta = meta

\* Line 1131: the action of a step is the DocAction of the bundle itself, not a
\* copy, so the steps show what has become of the bundle's actions.
stepsOfActions(st, docActions) ==
  [st EXCEPT !.list = [i \in DOMAIN st.list |->
     IF i \in DOMAIN docActions THEN [st.list[i] EXCEPT !.action = docActions[i]]
     ELSE st.list[i]]]

\* _filterDocUpdate hands the docActions of the message to the filter.
FilterMessage ==
  \E s \in Sessions :
    /\ filterOutgoingDocActions(s, activeBundle.docActions, TRUE)
    /\ steps' = stepsOfActions(steps, activeBundle'.docActions)
    /\ UNCHANGED <<prevUserAttributesMap, docData, recoveryMode, verified, preMeta>>

\* The filter applied to what it returned last.
FilterOwnOutput ==
  /\ last.op = "filterOutgoingDocActions"
  /\ last.result = "ok"
  /\ last.docActions = activeBundle.docActions
  /\ filterOutgoingDocActions(last.docSession, last.emitted, FALSE)
  /\ UNCHANGED <<steps, prevUserAttributesMap, docData, recoveryMode, verified, preMeta>>

NextRows ==
  \/ FilterMessage
  \/ FilterOwnOutput

SpecRows == InitRows /\ [][NextRows]_vars

(***************************************************************************)
(* The ingress check of user actions (assertCanMaybeApplyUserActions) and  *)
(* the metadata sent when a document is opened (filterMetaTables).         *)
(***************************************************************************)
SPECIAL_ACTIONS ==
  {"InitNewDoc", "EvalCode", "SetDisplayFormula", "UpdateSummaryViewSection",
   "DetachSummaryViewSection", "GenImporterView", "TransformAndFinishImport",
   "AddView", "CopyFromColumn", "AddHiddenColumn"}

SURPRISING_ACTIONS == {"RemoveView", "AddViewSection"}

\* A check with no action allowed unconditionally.
NoOkActions == {}

OK_ACTIONS == {"Calculate"}

hasFullAccess(s) == isOwner(s)

hasNuancedAccess(rc, s) == haveRules(rc) /\ ~hasFullAccess(s)

\* tableId.startsWith('_grist_'): the metadata tables of the model.
isGristTable(tableId) == tableId \in STRUCTURAL_TABLES

\* The outcome of a check: what it returns or throws, whether it asked for the
\* PermissionInfo of the session (_getAccess), and whether it consulted the
\* rules or the role of the session at all.
Checked(result, accessed, consulted) ==
  [result |-> result, accessed |-> accessed, consulted |-> consulted]

\* Lines 376-381: the table access of a data action on a user table, checked
\* with a fatal AccessCheck.
checkTableAccess(rc, recovery, s, a) ==
  IF getUserThrows(rc, recovery) THEN Checked("ruleError", TRUE, TRUE)
  ELSE IF TableAccess(rc, s, getAccessForActionType(a), a.tableId) = "deny"
  THEN Checked("ACL_DENY", TRUE, TRUE)
  ELSE Checked("true", TRUE, TRUE)

\* The loop of lines 347-350 after its first action: it stops at the first action
\* that throws or returns false.
afterFirst(first, rest) ==
  IF first.result # "true" THEN first
  ELSE Checked(rest.result, first.accessed \/ rest.accessed,
               first.consulted \/ rest.consulted)

RECURSIVE assertCanMaybeApplyUserActions(_, _, _, _)
RECURSIVE assertCanMaybeApplyUserAction(_, _, _, _)
assertCanMaybeApplyUserActions(rc, recovery, s, actions) ==
  IF actions = <<>> THEN Checked("true", FALSE, FALSE)
  ELSE afterFirst(assertCanMaybeApplyUserAction(rc, recovery, s, Head(actions)),
                  assertCanMaybeApplyUserActions(rc, recovery, s, Tail(actions)))

assertCanMaybeApplyUserAction(rc, recovery, s, a) ==
  IF a.name \in OK_ACTIONS THEN Checked("true", FALSE, FALSE)
  ELSE IF a.name \in SPECIAL_ACTIONS
  THEN Checked(IF hasNuancedAccess(rc, s) THEN "ACL_DENY" ELSE "true", FALSE, TRUE)
  ELSE IF a.name \in SURPRISING_ACTIONS
  THEN Checked(IF ~hasFullAccess(s) THEN "ACL_DENY" ELSE "true", FALSE, TRUE)
  ELSE IF a.name \in ContainerNames
  THEN assertCanMaybeApplyUserActions(rc, recovery, s, a.sub)
  ELSE IF isDataAction(a)
  THEN (IF isGristTable(a.tableId) THEN Checked("false", FALSE, FALSE)
        ELSE checkTableAccess(rc, recovery, s, a))
  ELSE Checked("false", FALSE, FALSE)

\* A call of assertCanMaybeApplyUserActions with its arguments and how it ended.
IngressCall(s, actions, checked) ==
  [op |-> "assertCanMaybeApplyUserActions", result |-> checked.result, docSession |-> s,
   actions |-> actions, consulted |-> checked.consulted, accessed |-> checked.accessed]

\* The call on the engine: asking for the session's PermissionInfo fills the
\* caches of the live Ruler.
ingressChecked(s, actions, checked) ==
  /\ last' = IngressCall(s, actions, checked)
  /\ ruler' = IF checked.accessed THEN cacheAfterGetAccess(ruler, s) ELSE ruler
  /\ userAttributesMap' =
       IF checked.accessed
       THEN mapAfterGetAccess(userAttributesMap, ruler, s, recoveryMode, docData)
       ELSE userAttributesMap
  /\ UNCHANGED <<activeBundle, steps, prevUserAttributesMap, docData, recoveryMode,
                 verified, preMeta>>

\* canView (app/common/roles): every role of the model can view.
canView(access) == access \in {"owners", "editors", "viewers"}

\* PermissionInfo.getFullAccess, on the read axis: 'allow' when every table is.
FullReadAccess(rc, s) ==
  IF \A tableId \in {"T", "R", "A"} : TableAccess(rc, s, "read", tableId) = "allow"
  THEN "allow" ELSE "mixed"

canReadEverything(rc, s) ==
  canView(getDocSessionAccess(s)) /\ FullReadAccess(rc, s) = "allow"

\* CensorshipInfo.apply on the TableData of an ACL table, given as its set of
\* row ids: the table is not one of `censored`, and is emptied for a viewer
\* who may not view the access rules.
applyToAclTable(canViewACLs, rows) == IF canViewACLs THEN rows ELSE {}

\* filterMetaTables: the two ACL tables of the tables returned.
metaTablesFor(rc, s, tables) ==
  IF canReadEverything(rc, s) THEN tables
  ELSE [rules |-> applyToAclTable(hasAccessRulesPermission(s), tables.rules),
        resources |-> applyToAclTable(hasAccessRulesPermission(s), tables.resources)]

\* filterMetaTables(docSession, tables), called with the metadata of the document.
filterMetaTables(s) ==
  /\ last' = IF getUserThrows(ruler.rc, recoveryMode)
             THEN [op |-> "filterMetaTables", result |-> "ruleError", docSession |-> s,
                   tables |-> EmptyMeta]
             ELSE [op |-> "filterMetaTables", result |-> "ok", docSession |-> s,
                   tables |-> metaTablesFor(ruler.rc, s, docData.meta)]
  /\ ruler' = cacheAfterGetAccess(ruler, s)
  /\ userAttributesMap' = mapAfterGetAccess(userAttributesMap, ruler, s, recoveryMode, docData)
  /\ UNCHANGED <<activeBundle, steps, prevUserAttributesMap, docData, recoveryMode,
                 verified, preMeta>>

\* The user actions of the requests: one of each class of the ingress check,
\* and containers of a schema action and a surprising action.
IngressLeaves ==
  { Leaf("Calculate", ""), Leaf("EvalCode", ""), Leaf("RemoveView", ""),
    Leaf("AddColumn", "T"), Leaf("UpdateRecord", "T") }

IngressNested == { Leaf("AddColumn", "T"), Leaf("RemoveView", "") }

IngressContainers ==
  { Container("ApplyUndoActions", sub) : sub \in SeqsUpTo(IngressNested, MaxNested) }
  \cup { Container("ApplyDocActions", <<Leaf("RemoveView", "")>>) }

IngressLists == SeqsUpTo(IngressLeaves \cup IngressContainers, MaxUserActions)

\* Documents whose rules are rule 1 and its resource, outside recovery mode or in it.
InitRequests == Init /\ docData.attrVal = AttrRow(1, 0) /\ 2 \notin docData.meta.rules

\* One list is checked between two other calls: a check reads the rules and the
\* session only, so a second check in a row meets nothing new.
AssertIngress ==
  /\ last.op # "assertCanMaybeApplyUserActions"
  /\ \E s \in Sessions, actions \in IngressLists :
       ingressChecked(s, actions,
         assertCanMaybeApplyUserActions(ruler.rc, recoveryMode, s, actions))

FilterMetaTables == \E s \in Sessions : filterMetaTables(s)

NextRequests ==
  \/ update
  \/ AssertIngress
  \/ FilterMetaTables

SpecRequests == InitRequests /\ [][NextRequests]_vars

(***************************************************************************)
(* Structural metadata and its censoring (CensorshipInfo).  A metadata     *)
(* table is a function from its row ids to its records; the document has   *)
(* the user tables "T" (ref 1) and "R" (ref 2), the columns `a` of "T" and *)
(* `a`, `b`, manualSort of "R", two views, and sections that show either   *)
(* table in either view or in none.                                        *)
(***************************************************************************)
MetaTablesTable == (1 :> [tableId |-> "T"]) @@ (2 :> [tableId |-> "R"])

MetaColumns ==
  (1 :> [parentId |-> 1, colId |-> "a", label |-> "A"])
  @@ (2 :> [parentId |-> 2, colId |-> "a", label |-> "A"])
  @@ (3 :> [parentId |-> 2, colId |-> "b", label |-> "B"])
  @@ (4 :> [parentId |-> 2, colId |-> "manualSort", label |-> "manualSort"])
  @@ (5 :> [parentId |-> 1, colId |-> "manualSort", label |-> "manualSort"])

MetaViews == (1 :> [name |-> "v1"]) @@ (2 :> [name |-> "v2"])

SectionIds == 1..MaxSections

\* Field 1 shows column `a` of "T" in section 1, field 2 column `b` of "R" in
\* the last section.
MetaFields ==
  (1 :> [parentId |-> 1, colRef |-> 1, filter |-> "f"])
  @@ (2 :> [parentId |-> MaxSections, colRef |-> 3, filter |-> "f"])

MetaSections ==
  [SectionIds -> [tableRef : DOMAIN MetaTablesTable, parentId : {0} \cup DOMAIN MetaViews,
                  title : {"s"}]]

\* The structural tables handed to filterMetaTables, with the ACL tables `acl`.
StructuralTables(sections, acl) ==
  [Tables |-> MetaTablesTable, Columns |-> MetaColumns, Views |-> MetaViews,
   Sections |-> sections, Fields |-> MetaFields,
   rules |-> acl.rules, resources |-> acl.resources]

\* The constructor of CensorshipInfo: the censored rows of each table.
censoredTables(rc, s, tables) ==
  { ref \in DOMAIN tables.Tables :
      TableAccess(rc, s, "read", tables.Tables[ref].tableId) = "deny" }

uncensoredTables(rc, s, tables) ==
  { ref \in DOMAIN tables.Tables :
      TableAccess(rc, s, "read", tables.Tables[ref].tableId) = "allow" }

\* A scan for forbidden columns that treats manualSort as any other column.
censoredColumnCodesOfAll(rc, s, tables) ==
  { <<tables.Columns[id].parentId, tables.Columns[id].colId>> : id \in
      { c \in DOMAIN tables.Columns :
          /\ tables.Columns[c].parentId \notin uncensoredTables(rc, s, tables)
          /\ \/ tables.Columns[c].parentId \in censoredTables(rc, s, tables)
             \/ ColumnAccess(rc, s, tables.Columns[c].colId) = "deny" } }

\* Lines 1531-1543; the only table that is neither censored nor uncensored is "R".
censoredColumnCodes(rc, s, tables) ==
  { <<tables.Columns[id].parentId, tables.Columns[id].colId>> : id \in
      { c \in DOMAIN tables.Columns :
          /\ tables.Columns[c].parentId \notin uncensoredTables(rc, s, tables)
          /\ \/ tables.Columns[c].parentId \in censoredTables(rc, s, tables)
             \/ /\ tables.Columns[c].colId # "manualSort"
                /\ ColumnAccess(rc, s, tables.Columns[c].colId) = "deny" } }

censoredSections(rc, s, tables) ==
  { id \in DOMAIN tables.Sections :
      tables.Sections[id].tableRef \in censoredTables(rc, s, tables) }

censoredViews(rc, s, tables) ==
  { tables.Sections[id].parentId : id \in censoredSections(rc, s, tables) } \ {0}

censoredColumns(rc, s, tables) ==
  { id \in DOMAIN tables.Columns :
      \/ tables.Columns[id].parentId \in censoredTables(rc, s, tables)
      \/ <<tables.Columns[id].parentId, tables.Columns[id].colId>>
           \in censoredColumnCodes(rc, s, tables) }

censoredFields(rc, s, tables) ==
  { id \in DOMAIN tables.Fields :
      \/ tables.Fields[id].parentId \in censoredSections(rc, s, tables)
      \/ tables.Fields[id].colRef \in censoredColumns(rc, s, tables) }

CensorshipInfo(rc, s, tables) ==
  [Tables |-> censoredTables(rc, s, tables), Columns |-> censoredColumns(rc, s, tables),
   Views |-> censoredViews(rc, s, tables), Sections |-> censoredSections(rc, s, tables),
   Fields |-> censoredFields(rc, s, tables)]

\* getCensorMethod: what is written over the cells of a censored record of each
\* table; the method of the ACL tables writes nothing.
CensoredValues(tableId) ==
  IF tableId = "_grist_Tables" THEN [c \in {"tableId"} |-> ""]
  ELSE IF tableId = "_grist_Views" THEN [c \in {"name"} |-> ""]
  ELSE IF tableId = "_grist_Views_section"
  THEN [c \in {"title", "tableRef"} |-> IF c = "tableRef" THEN 0 ELSE ""]
  ELSE IF tableId = "_grist_Tables_column"
  THEN [c \in {"label", "colId", "widgetOptions", "formula", "type", "parentId"} |->
          IF c = "parentId" THEN 0 ELSE IF c = "type" THEN "Any" ELSE ""]
  ELSE IF tableId = "_grist_Views_section_field"
  THEN [c \in {"widgetOptions", "filter", "parentId"} |-> IF c = "parentId" THEN 0 ELSE ""]
  ELSE <<>>

\* The method applied through a RecordEditor with `optional` set: a cell is
\* written only in a column the record has.
censorRecord(tableId, rec) ==
  [c \in DOMAIN rec |->
     IF c \in DOMAIN CensoredValues(tableId) THEN CensoredValues(tableId)[c] ELSE rec[c]]

censorTable(rec) == censorRecord("_grist_Tables", rec)

censorView(rec) == censorRecord("_grist_Views", rec)

censorSection(rec) == censorRecord("_grist_Views_section", rec)

censorColumn(rec) == censorRecord("_grist_Tables_column", rec)

censorField(rec) == censorRecord("_grist_Views_section_field", rec)

\* A censor that blanks the sections of a censored table and leaves their views.
applyKeepsViews(censor, canViewACLs, tables) ==
  [Tables |-> [id \in DOMAIN tables.Tables |->
      IF id \in censor.Tables THEN censorTable(tables.Tables[id]) ELSE tables.Tables[id]],
   Columns |-> [id \in DOMAIN tables.Columns |->
      IF id \in censor.Columns THEN censorColumn(tables.Columns[id]) ELSE tables.Columns[id]],
   Views |-> tables.Views,
   Sections |-> [id \in DOMAIN tables.Sections |->
      IF id \in censor.Sections THEN censorSection(tables.Sections[id]) ELSE tables.Sections[id]],
   Fields |-> [id \in DOMAIN tables.Fields |->
      IF id \in censor.Fields THEN censorField(tables.Fields[id]) ELSE tables.Fields[id]],
   rules |-> applyToAclTable(canViewACLs, tables.rules),
   resources |-> applyToAclTable(canViewACLs, tables.resources)]

\* CensorshipInfo.apply on the TableData of every structural table (the loop of
\* lines 499-501).
applyToTables(censor, canViewACLs, tables) ==
  [Tables |-> [id \in DOMAIN tables.Tables |->
      IF id \in censor.Tables THEN censorTable(tables.Tables[id]) ELSE tables.Tables[id]],
   Columns |-> [id \in DOMAIN tables.Columns |->
      IF id \in censor.Columns THEN censorColumn(tables.Columns[id]) ELSE tables.Columns[id]],
   Views |-> [id \in DOMAIN tables.Views |->
      IF id \in censor.Views THEN censorView(tables.Views[id]) ELSE tables.Views[id]],
   Sections |-> [id \in DOMAIN tables.Sections |->
      IF id \in censor.Sections THEN censorSection(tables.Sections[id]) ELSE tables.Sections[id]],
   Fields |-> [id \in DOMAIN tables.Fields |->
      IF id \in censor.Fields THEN censorField(tables.Fields[id]) ELSE tables.Fields[id]],
   rules |-> applyToAclTable(canViewACLs, tables.rules),
   resources |-> applyToAclTable(canViewACLs, tables.resources)]

\* Line 493: the tables are copied before they are censored, so the caller's
\* tables are after the call what they were.
callerTablesAfter(given, returned) == given

\* filterMetaTables(docSession, tables): what is returned.
filteredMetaTables(rc, s, tables) ==
  IF canReadEverything(rc, s) THEN tables
  ELSE applyToTables(CensorshipInfo(rc, s, tables), hasAccessRulesPermission(s), tables)

MetaCall(s, given, result, returned) ==
  [op |-> "filterMetaTables", result |-> result, docSession |-> s, given |-> given,
   input |-> callerTablesAfter(given, returned), tables |-> returned]

\* filterMetaTables(docSession, tables) on the engine.
filterMetaTablesOf(s, tables) ==
  /\ last' = IF getUserThrows(ruler.rc, recoveryMode)
             THEN MetaCall(s, tables, "ruleError", tables)
             ELSE MetaCall(s, tables, "ok", filteredMetaTables(ruler.rc, s, tables))
  /\ ruler' = cacheAfterGetAccess(ruler, s)
  /\ userAttributesMap' = mapAfterGetAccess(userAttributesMap, ruler, s, recoveryMode, docData)
  /\ UNCHANGED <<activeBundle, steps, prevUserAttributesMap, docData, recoveryMode,
                 verified, preMeta>>

(***************************************************************************)
(* A document is opened: its structural tables are filtered for a viewer,  *)
(* under every set of the rules 1, 3, 4 and 5.                             *)
(***************************************************************************)
OpenMetas == [rules : SUBSET {1, 3, 4, 5}, resources : {{1}}]

InitMeta ==
  \E meta \in OpenMetas, sections \in MetaSections :
    /\ activeBundle = NoBundle
    /\ steps = NoSteps
    /\ userAttributesMap = EmptyMap
    /\ prevUserAttributesMap = NoPrev
    /\ ruler = [rc |-> meta, cache |-> {}]
    /\ docData = [meta |-> meta, attrVal |-> AttrRow(1, 0)]
    /\ recoveryMode = FALSE
    /\ last = [op |-> "openDoc", result |-> "ok", tables |-> StructuralTables(sections, meta)]
    /\ verified = FALSE
    /\ preMeta = meta

\* The tables of the document are filtered for each viewer that opens it.
FilterStructuralTables ==
  \E s \in Sessions :
    filterMetaTablesOf(s, IF last.op = "openDoc" THEN last.tables ELSE last.given)

NextMeta == FilterStructuralTables

SpecMeta == InitMeta /\ [][NextMeta]_vars

(***************************************************************************)
(* The pruning functions on their own: _pruneColumns, _pruneRows and       *)
(* _removeRows applied to one data action on table "R", for one viewer,    *)
(* under every set of the rules 3, 4 and 5.  `last` holds the arguments of *)
(* the call and what it returned.                                          *)
(***************************************************************************)
PruneMetas == [rules : SUBSET {3, 4, 5}, resources : {{}}]

PruneRowIds == 1..MaxPruneRows

\* The cells of the rows `S` in the columns `C`: the cell `a` of a row is any
\* value, its cell `b` is "x" in the rows of odd id and "y" in the others.
PruneCells(S, C) ==
  { f \in [S -> [C -> CellValues]] :
      \A id \in S : "b" \in C => f[id]["b"] = (IF id % 2 = 1 THEN "x" ELSE "y") }

PruneTables ==
  UNION { { DataAction("TableData", SortedIds(S), ColValuesOf(SortedIds(S), RowCols, f)) :
              f \in PruneCells(S, RowCols) } : S \in SUBSET PruneRowIds }

\* The data actions of the data engine on the table `d`, as RowActions.
PruneRowActions(d) ==
  UNION { { DataAction(n, SortedIds(S), ColValuesOf(SortedIds(S), RowCols, f)) :
              f \in PruneCells(S, RowCols), n \in NamesFor(S, "AddRecord", "BulkAddRecord") } :
          S \in (SUBSET (PruneRowIds \ idsOf(d))) \ {{}} }
  \cup UNION { UNION { { DataAction(n, SortedIds(S), ColValuesOf(SortedIds(S), C, f)) :
                           f \in PruneCells(S, C),
                           n \in NamesFor(S, "UpdateRecord", "BulkUpdateRecord") } :
                       C \in (SUBSET RowCols) \ {{}} } :
               S \in (SUBSET idsOf(d)) \ {{}} }
  \cup UNION { { DataAction(n, SortedIds(S), <<>>) : n \in NamesFor(S, "RemoveRecord", "BulkRemoveRecord") } :
               S \in (SUBSET idsOf(d)) \ {{}} }

\* The action with a manualSort column next to its own.
withManualSort(a) ==
  [a EXCEPT !.colValues =
     [c \in DOMAIN a.colValues \cup {"manualSort"} |->
        IF c = "manualSort" THEN [i \in 1..Len(a.rowIds) |-> "y"] ELSE a.colValues[c]]]

\* The actions handed to the pruning functions: those of the data engine, and
\* the additions and updates with a manualSort column.
PruneActions(d) ==
  PruneRowActions(d)
  \cup { withManualSort(a) : a \in { r \in PruneRowActions(d) : r.name \notin RemoveNames } }

PruneInput(s, a, d) ==
  [op |-> "input", result |-> "ok", docSession |-> s, action |-> a, rowsBefore |-> d]

InitPrune ==
  \E meta \in PruneMetas, s \in Sessions, d \in PruneTables :
    \E a \in PruneActions(d) :
      /\ activeBundle = NoBundle
      /\ steps = NoSteps
      /\ userAttributesMap = EmptyMap
      /\ prevUserAttributesMap = NoPrev
      /\ ruler = [rc |-> meta, cache |-> {}]
      /\ docData = [meta |-> meta, attrVal |-> AttrRow(1, 0)]
      /\ recoveryMode = FALSE
      /\ last = PruneInput(s, a, d)
      /\ verified = FALSE
      /\ preMeta = meta

pruneUnchanged ==
  UNCHANGED <<activeBundle, steps, userAttributesMap, prevUserAttributesMap, ruler, docData,
              recoveryMode, verified, preMeta>>

\* _pruneColumns(a, permInfo, tableId, readAccessCheck) for the viewer.
PruneColumns ==
  /\ last.op = "input"
  /\ last' = [op |-> "_pruneColumns", result |-> "ok", docSession |-> last.docSession,
              action |-> last.action,
              pruned |-> pruneColumns(ruler.rc, last.docSession, last.action)]
  /\ pruneUnchanged

pruneRowsCall(s, a, d, rows) ==
  last' = [op |-> "_pruneRows", result |-> IF rows.error # "" THEN rows.error ELSE "ok",
           docSession |-> s, action |-> a, rowsBefore |-> d,
           rowsAfter |-> receiveRowAction(d, a), revised |-> rows.revised]

\* _pruneRows(cursor) for the viewer, at the step of the action.
PruneRows ==
  /\ last.op = "input"
  /\ pruneRowsCall(last.docSession, last.action, last.rowsBefore,
                   pruneRows(ruler.rc, last.docSession,
                             RowStep(last.action, last.rowsBefore), last.action))
  /\ pruneUnchanged

\* _removeRows(a, rowIds) for any set of row ids.
RemoveRows ==
  /\ last.op = "input"
  /\ \E rowIds \in SUBSET PruneRowIds :
       last' = [op |-> "_removeRows", result |-> "ok", docSession |-> last.docSession,
                action |-> last.action, rowIds |-> rowIds,
                left |-> removeRows(last.action, rowIds)]
  /\ pruneUnchanged

NextPrune ==
  \/ PruneColumns
  \/ PruneRows
  \/ RemoveRows

SpecPrune == InitPrune /\ [][NextPrune]_vars

(***************************************************************************)
(* The outgoing filter of one action (_filterOutgoingDocAction) with its   *)
(* second pass over the structural tables.  A data action on a structural  *)
(* table is [name, tableId, rowIds, colValues] as one on table "R".        *)
(***************************************************************************)
\* The table of the metadata record that holds a structural table.
metaKey(tableId) ==
  IF tableId = "_grist_Tables" THEN "Tables"
  ELSE IF tableId = "_grist_Tables_column" THEN "Columns"
  ELSE IF tableId = "_grist_Views" THEN "Views"
  ELSE IF tableId = "_grist_Views_section" THEN "Sections"
  ELSE "Fields"

StructuralAction(name, tableId, id, colValues) ==
  [name |-> name, tableId |-> tableId, rowIds |-> <<id>>, colValues |-> colValues]

\* TableData.receiveAction of the metadata for an update of one record and for
\* a record added to an ACL table.
receiveStructural(tables, a) ==
  IF a.tableId = "_grist_ACLRules" THEN [tables EXCEPT !.rules = @ \cup idsOf(a)]
  ELSE IF a.tableId = "_grist_ACLResources" THEN [tables EXCEPT !.resources = @ \cup idsOf(a)]
  ELSE IF a.tableId \in STRUCTURAL_TABLES
  THEN [tables EXCEPT ![metaKey(a.tableId)][a.rowIds[1]] =
          [c \in DOMAIN @ |-> IF c \in DOMAIN a.colValues THEN a.colValues[c][1] ELSE @[c]]]
  ELSE tables

\* CensorshipInfo.apply on a data action: an action of an ACL table is kept for
\* a viewer of the access rules only; the censored rows of another structural
\* table are overwritten in the columns the action carries.
applyToAction(censor, canViewACLs, a) ==
  IF a.tableId \in AclTables THEN (IF canViewACLs THEN <<a>> ELSE <<>>)
  ELSE <<[a EXCEPT !.colValues =
            [c \in DOMAIN a.colValues |-> [i \in 1..Len(a.rowIds) |->
               IF a.rowIds[i] \in censor[metaKey(a.tableId)]
                  /\ c \in DOMAIN CensoredValues(a.tableId)
               THEN CensoredValues(a.tableId)[c] ELSE a.colValues[c][i]]]]>>

\* The views of a set, in the order the constructor met them: that of the
\* sections, from section `id` on.
RECURSIVE viewsInOrder(_, _, _, _)
viewsInOrder(tables, censored, id, seen) ==
  IF id \notin DOMAIN tables.Sections THEN <<>>
  ELSE IF id \in censored.Sections /\ tables.Sections[id].parentId \notin seen \cup {0}
  THEN <<tables.Sections[id].parentId>>
       \o viewsInOrder(tables, censored, id + 1, seen \cup {tables.Sections[id].parentId})
  ELSE viewsInOrder(tables, censored, id + 1, seen)

\* Lines 1231-1244: an UpdateRecord for each view of `views` that is not in
\* `others`, carrying its name or the empty name.
RECURSIVE viewUpdates(_, _, _, _)
viewUpdates(views, others, tables, expose) ==
  IF views = <<>> THEN <<>>
  ELSE (IF Head(views) \in others THEN <<>>
        ELSE <<StructuralAction("UpdateRecord", "_grist_Views", Head(views),
                 [c \in {"name"} |-> <<IF expose THEN tables.Views[Head(views)].name ELSE "">>])>>)
       \o viewUpdates(Tail(views), others, tables, expose)

\* The wrinkle of lines 1219-1245 for an action of _grist_Views_section.
reconsiderViews(before, after, metaBefore, metaAfter) ==
  viewUpdates(viewsInOrder(metaBefore, before, 1, {}), after.Views, metaAfter, TRUE)
  \o viewUpdates(viewsInOrder(metaAfter, after, 1, {}), before.Views, metaAfter, FALSE)

\* _filterOutgoingStructuralTables for one data action of a structural table.
filterOutgoingStructuralTables(rc, s, act, metaBefore, metaAfter) ==
  applyToAction(CensorshipInfo(rc, s, metaAfter), hasAccessRulesPermission(s), act)
  \o (IF act.tableId = "_grist_Views_section"
      THEN reconsiderViews(CensorshipInfo(rc, s, metaBefore), CensorshipInfo(rc, s, metaAfter),
                           metaBefore, metaAfter)
      ELSE <<>>)

\* The second pass of _filterOutgoingDocAction (lines 1189-1197).
RECURSIVE secondPass(_, _, _, _, _)
secondPass(rc, s, results, metaBefore, metaAfter) ==
  IF results = <<>> THEN <<>>
  ELSE (IF Head(results).tableId \in STRUCTURAL_TABLES /\ isDataAction(Head(results))
        THEN filterOutgoingStructuralTables(rc, s, Head(results), metaBefore, metaAfter)
        ELSE <<Head(results)>>)
       \o secondPass(rc, s, Tail(results), metaBefore, metaAfter)

\* A dispatch that sends the action as it is when only columns are restricted.
firstPassWithoutColumns(rc, s, step, a) ==
  IF TableAccess(rc, s, "read", a.tableId) = "deny" THEN <<>>
  ELSE IF TableAccess(rc, s, "read", a.tableId) \in {"allow", "mixedColumns"} THEN <<a>>
  ELSE filterOutgoingDocAction(rc, s, step, a).emitted

\* The first pass of _filterOutgoingDocAction (lines 1175-1188).
firstPass(rc, s, step, a) == filterOutgoingDocAction(rc, s, step, a).emitted

\* _filterOutgoingDocAction(cursor), both passes.
filterOutgoingBothPasses(rc, s, step, a, metaBefore) ==
  secondPass(rc, s, firstPass(rc, s, step, a), metaBefore, receiveStructural(metaBefore, a))

(***************************************************************************)
(* One action is filtered for one viewer: an action on the table "R" or    *)
(* "T", or a data action on a structural table, under every set of the     *)
(* rules 1, 3, 4 and 5.                                                    *)
(***************************************************************************)
\* Updates of a cell of the table "T".
TActions ==
  { [DataAction("UpdateRecord", <<1>>, [c \in {"a"} |-> <<v>>]) EXCEPT !.tableId = "T"] :
      v \in CellValues }

\* Data actions on the structural tables: a column is given a new label, a
\* section is made to show another table, a resource is added.
StructuralActions(sections) ==
  { StructuralAction("UpdateRecord", "_grist_Tables_column", c, [k \in {"label"} |-> <<"L">>]) :
      c \in DOMAIN MetaColumns }
  \cup { StructuralAction("UpdateRecord", "_grist_Views_section", id,
                          [k \in {"tableRef"} |-> <<3 - sections[id].tableRef>>]) :
           id \in SectionIds }
  \cup { StructuralAction("AddRecord", "_grist_ACLResources", 2, <<>>) }

\* Every section shows the table "T" in the first view.
PlainSections == [id \in SectionIds |-> [tableRef |-> 1, parentId |-> 1, title |-> "s"]]

DispatchInput(s, a, d, metaBefore) ==
  [op |-> "input", result |-> "ok", docSession |-> s, action |-> a, rowsBefore |-> d,
   metaBefore |-> metaBefore]

InitDispatch ==
  \E meta \in OpenMetas, s \in Sessions :
    /\ activeBundle = NoBundle
    /\ steps = NoSteps
    /\ userAttributesMap = EmptyMap
    /\ prevUserAttributesMap = NoPrev
    /\ ruler = [rc |-> meta, cache |-> {}]
    /\ docData = [meta |-> meta, attrVal |-> AttrRow(1, 0)]
    /\ recoveryMode = FALSE
    /\ verified = FALSE
    /\ preMeta = meta
    /\ \/ \E d \in RowTables :
            \E a \in RowActions(d) \cup TActions :
              last = DispatchInput(s, a, d, StructuralTables(PlainSections, meta))
       \/ \E sections \in MetaSections :
            \E a \in StructuralActions(sections) :
              last = DispatchInput(s, a, DataAction("TableData", <<>>, [c \in RowCols |-> <<>>]),
                                   StructuralTables(sections, meta))

\* _filterOutgoingDocAction(cursor) for the viewer, at the step of the action.
FilterOutgoingDocAction ==
  /\ last.op = "input"
  /\ last' = [op |-> "_filterOutgoingDocAction",
              result |-> IF filterOutgoingDocAction(ruler.rc, last.docSession,
                              RowStep(last.action, last.rowsBefore), last.action).error # ""
                         THEN "Error" ELSE "ok",
              docSession |-> last.docSession, action |-> last.action,
              rowsBefore |-> last.rowsBefore, metaBefore |-> last.metaBefore,
              emitted |-> filterOutgoingBothPasses(ruler.rc, last.docSession,
                            RowStep(last.action, last.rowsBefore), last.action,
                            last.metaBefore)]
  /\ pruneUnchanged

NextDispatch == FilterOutgoingDocAction

SpecDispatch == InitDispatch /\ [][NextDispatch]_vars

(***************************************************************************)
(* Bundles on the source table of a user attribute.  The rules of the      *)
(* document hold the user-attribute rule 2 on table "A", alone or with     *)
(* rules that make haveRules() true; sessions have                         *)
(* their attributes resolved by requests for the metadata; the host begins *)
(* a bundle, has it checked, applies it and broadcasts it, and each viewer *)
(* is served by filterOutgoingDocActions on the DocActions of the message. *)
(***************************************************************************)
AttrMetas == [rules : {{2}, {1, 2}, {2, 3}, {1, 2, 3}}, resources : {{1}}]

\* The DocActions of the bundles: actions on table "A" after which the row found
\* for the user is another row or row 1 with another cell, one such action or
\* two; an update of table "T"; a schema action; and a change of the rules that
\* is not a deliberate one.  Row 2 has the cells of row 1.
AttrRows == AttrValues \cup {AttrRow(2, 0)}

AttrBundles ==
  { <<DocAction("UpdateRecord", "A", v)>> : v \in AttrRows }
  \cup { <<DocAction("UpdateRecord", "A", v), DocAction("UpdateRecord", "A", w)>> :
           v \in AttrRows, w \in AttrRows }
  \cup { <<DocAction("UpdateRecord", "T", 0)>>, <<DocAction("AddColumn", "T", 0)>>,
         <<DocAction("AddRecord", "_grist_ACLRules", 1)>>,
         <<DocAction("RemoveRecord", "_grist_ACLRules", 2)>> }

InitAttrs ==
  \E meta \in AttrMetas, v \in AttrValues :
    /\ activeBundle = NoBundle
    /\ steps = NoSteps
    /\ userAttributesMap = EmptyMap
    /\ prevUserAttributesMap = NoPrev
    /\ ruler = [rc |-> meta, cache |-> {}]
    /\ docData = [meta |-> meta, attrVal |-> v]
    /\ recoveryMode = FALSE
    /\ last = Call("update", "ok")
    /\ verified = FALSE
    /\ preMeta = EmptyMeta

BeginAttrs ==
  /\ ~bundleInProgress(activeBundle)
  /\ \E s \in Sessions, da \in AttrBundles :
       /\ ValidDocActions(docData, da)
       /\ getGranularAccessForBundle(s, da, <<>>)

CheckAttrs == activeBundle.active /\ ~activeBundle.applied /\ canApplyBundle

ApplyAttrs == activeBundle.active /\ ~activeBundle.applied /\ verified /\ appliedBundle

\* The broadcast of the applied bundle reaches a viewer.
FilterForViewer ==
  /\ activeBundle.active /\ activeBundle.applied
  /\ steps.has \/ ~haveRules(ruler.rc)
  /\ \E s \in Sessions : filterOutgoingDocActions(s, activeBundle.docActions, TRUE)
  /\ UNCHANGED <<steps, prevUserAttributesMap, docData, recoveryMode, verified, preMeta>>

FinishAttrs == activeBundle.active /\ finishedBundle

NextAttrs ==
  \/ FilterMetaTables
  \/ BeginAttrs
  \/ CheckAttrs
  \/ ApplyAttrs
  \/ FilterForViewer
  \/ FinishAttrs

SpecAttrs == InitAttrs /\ [][NextAttrs]_vars

(***************************************************************************)
(* The steps of a bundle of data actions on table "R", computed before the *)
(* host commits the bundle or after.  The database is the table "R";       *)
(* `docData.rows` is what it holds: the rows before the bundle until       *)
(* appliedBundle, the rows after the bundle from then on.                  *)
(***************************************************************************)
MaxReplayActions == 2

\* The action that undoes `a` on the table `d`, as the data engine records it.
undoOfRowAction(d, a) ==
  IF a.name \in AddNames THEN DataAction("BulkRemoveRecord", a.rowIds, <<>>)
  ELSE IF a.name \in UpdateNames
  THEN DataAction("BulkUpdateRecord", a.rowIds,
         [c \in DOMAIN a.colValues |-> [i \in 1..Len(a.rowIds) |-> cellOf(d, a.rowIds[i], c)]])
  ELSE IF a.name = "ReplaceTableData"
  THEN DataAction("ReplaceTableData", d.rowIds, d.colValues)
  ELSE DataAction("BulkAddRecord", a.rowIds,
         [c \in RowCols |-> [i \in 1..Len(a.rowIds) |-> cellOf(d, a.rowIds[i], c)]])

RECURSIVE undoOfRowActions(_, _)
undoOfRowActions(d, actions) ==
  IF actions = <<>> THEN <<>>
  ELSE <<undoOfRowAction(d, Head(actions))>>
       \o undoOfRowActions(receiveRowAction(d, Head(actions)), Tail(actions))

RECURSIVE receiveRowActions(_, _)
receiveRowActions(d, actions) ==
  IF actions = <<>> THEN d
  ELSE receiveRowActions(receiveRowAction(d, Head(actions)), Tail(actions))

\* getRelatedRows: the row ids of table "R" the actions carry.
getRelatedRows(actions) == UNION { idsOf(actions[i]) : i \in DOMAIN actions }

\* _fetchQueryFromDB with a filter on the ids.
fetchQueryFromDB(db, ids) == keepRows(db, ids)

\* Lines 1116-1152: the steps forward from the rows `d`.
RECURSIVE stepForward(_, _)
stepForward(d, actions) ==
  IF actions = <<>> THEN <<>>
  ELSE <<RowStep(Head(actions), d)>>
       \o stepForward(receiveRowAction(d, Head(actions)), Tail(actions))

\* _getUncachedSteps (lines 1066-1155) for data actions on "R": the rows of the
\* actions (of the undo actions, if applied) are fetched, the undo actions
\* are applied in reverse if applied, and the docActions are stepped through.
getUncachedRowSteps(bundle, db) ==
  LET fetched == fetchQueryFromDB(db, getRelatedRows(IF bundle.applied
                                                     THEN Reverse(bundle.undo)
                                                     ELSE bundle.docActions))
  IN stepForward(IF bundle.applied THEN receiveRowActions(fetched, Reverse(bundle.undo))
                 ELSE fetched,
                 bundle.docActions)

\* The data actions of the bundles: those of RowActions and a replacement of
\* the rows of the table.
ReplayActions(d) ==
  RowActions(d)
  \cup { DataAction("ReplaceTableData", t.rowIds, t.colValues) : t \in RowTables }

\* The bundles of up to MaxReplayActions actions the data engine can produce on `d`.
RECURSIVE ReplayBundles(_, _)
ReplayBundles(d, n) ==
  IF n = 0 THEN {<<>>}
  ELSE UNION { { <<a>> \o rest : rest \in ReplayBundles(receiveRowAction(d, a), n - 1) } :
               a \in ReplayActions(d) }

InitReplay ==
  \E d \in RowTables, n \in 1..MaxReplayActions :
    \E da \in ReplayBundles(d, n) :
      /\ activeBundle = [active |-> TRUE, docSession |-> 1, userActions |-> <<>>,
                         docActions |-> da, undo |-> undoOfRowActions(d, da),
                         applied |-> FALSE, hasDeliberateRuleChange |-> FALSE]
      /\ steps = NoSteps
      /\ userAttributesMap = EmptyMap
      /\ prevUserAttributesMap = NoPrev
      /\ ruler = [rc |-> EmptyMeta, cache |-> {}]
      /\ docData = [meta |-> EmptyMeta, attrVal |-> AttrRow(1, 0), rows |-> d]
      /\ recoveryMode = FALSE
      /\ last = Call("getGranularAccessForBundle", "ok")
      /\ verified = FALSE
      /\ preMeta = EmptyMeta

\* _getSteps on the bundle.
RequestRowSteps ==
  /\ steps' = IF steps.has THEN steps
              ELSE [has |-> TRUE, failed |-> FALSE, applied |-> activeBundle.applied,
                    list |-> getUncachedRowSteps(activeBundle, docData.rows), rulers |-> <<>>]
  /\ last' = Call("_getSteps", "ok")
  /\ UNCHANGED <<activeBundle, userAttributesMap, prevUserAttributesMap, ruler, docData,
                 recoveryMode, verified, preMeta>>

\* The host commits the docActions and calls appliedBundle: the Ruler has no
\* rules, and the call returns at line 265.
ApplyRows ==
  /\ ~activeBundle.applied
  /\ docData' = [docData EXCEPT !.rows = receiveRowActions(@, activeBundle.docActions)]
  /\ activeBundle' = [activeBundle EXCEPT !.applied = TRUE]
  /\ last' = Call("appliedBundle", "ok")
  /\ UNCHANGED <<steps, userAttributesMap, prevUserAttributesMap, ruler, recoveryMode,
                 verified, preMeta>>

NextReplay ==
  \/ RequestRowSteps
  \/ ApplyRows

SpecReplay == InitReplay /\ [][NextReplay]_vars

(***************************************************************************)
(* CensorshipInfo.apply on one action, for a viewer with or without the    *)
(* AccessRules permission: the action after the call (apply writes into    *)
(* it) and the value returned.                                             *)
(***************************************************************************)
MaxAclRows == 2

\* An apply that returns true for every action.
applyReturnsTrue(censor, canViewACLs, a) ==
  [action |-> IF a.tableId \in AclTables /\ ~canViewACLs
              THEN [a EXCEPT !.rowIds = <<>>, !.colValues = <<>>] ELSE a,
   returned |-> TRUE]

\* Lines 1575-1597.
apply(censor, canViewACLs, a) ==
  IF a.tableId \notin STRUCTURAL_TABLES THEN [action |-> a, returned |-> TRUE]
  ELSE IF a.tableId \in AclTables
  THEN [action |-> IF ~canViewACLs /\ a.name = "TableData"
                   THEN [a EXCEPT !.rowIds = <<>>, !.colValues = <<>>] ELSE a,
        returned |-> canViewACLs]
  ELSE [action |-> applyToAction(censor, canViewACLs, a)[1], returned |-> TRUE]

NoCensor == [Tables |-> {}, Columns |-> {}, Views |-> {}, Sections |-> {}, Fields |-> {}]

\* Actions with the rows 1..n of an ACL table or of the user table "T".
ApplyActions ==
  { [name |-> name, tableId |-> t, rowIds |-> [i \in 1..n |-> i],
     colValues |-> [c \in {"aclFormula"} |-> [i \in 1..n |-> v]]] :
      name \in {"TableData", "BulkAddRecord", "BulkUpdateRecord"},
      t \in AclTables \cup {"T"}, n \in 0..MaxAclRows, v \in {"f", "g"} }

InitApply ==
  /\ activeBundle = NoBundle
  /\ steps = NoSteps
  /\ userAttributesMap = EmptyMap
  /\ prevUserAttributesMap = NoPrev
  /\ ruler = [rc |-> EmptyMeta, cache |-> {}]
  /\ docData = [meta |-> EmptyMeta, attrVal |-> AttrRow(1, 0)]
  /\ recoveryMode = FALSE
  /\ \E a \in ApplyActions, canViewACLs \in BOOLEAN :
       last = [op |-> "input", result |-> "ok", action |-> a, canViewACLs |-> canViewACLs]
  /\ verified = FALSE
  /\ preMeta = EmptyMeta

\* censor.apply(a) of a CensorshipInfo built for the viewer.
Apply ==
  /\ last.op = "input"
  /\ LET r == apply(NoCensor, last.canViewACLs, last.action)
     IN last' = [op |-> "apply", result |-> "ok", given |-> last.action,
                 canViewACLs |-> last.canViewACLs,
                 action |-> r.action, returned |-> r.returned]
  /\ pruneUnchanged

NextApply == Apply

SpecApply == InitApply /\ [][NextApply]_vars

(***************************************************************************)
(* The rows of rec and newRec for the check of an incoming action.  A step *)
(* is its action [name, tableId, newId] (newId: a[2] of a RenameTable),    *)
(* the snapshots rowsBefore and rowsAfter of the table of the action,      *)
(* each with the id of the table and the number of actions it follows,     *)
(* and rowsLast (NoRows until it is set).                                  *)
(***************************************************************************)
MaxBundleSteps == 3

NoRows == [tableId |-> "", after |-> 0]

StepTables == {"T", "U"}

StepActions ==
  [name : {"UpdateRecord", "AddColumn"}, tableId : StepTables, newId : {""}]
  \cup { a \in [name : {"RenameTable"}, tableId : StepTables, newId : StepTables] :
           a.newId # a.tableId }

\* The steps of a list of actions, as _getUncachedSteps leaves them.
stepsWithRows(actions) ==
  [i \in 1..Len(actions) |->
     [action |-> actions[i],
      rowsBefore |-> [tableId |-> actions[i].tableId, after |-> i - 1],
      rowsAfter |-> [tableId |-> actions[i].tableId, after |-> i],
      rowsLast |-> NoRows]]

\* A loop that does not follow the table to its new id.
RECURSIVE lastStepSameId(_, _, _, _)
lastStepSameId(list, i, tableId, lastIdx) ==
  IF i > Len(list) THEN lastIdx
  ELSE IF getTableId(list[i].action) # tableId
       THEN lastStepSameId(list, i + 1, tableId, lastIdx)
  ELSE IF list[i].action.name = "RenameTable"
       THEN lastStepSameId(list, i + 1, tableId, lastIdx)
  ELSE lastStepSameId(list, i + 1, tableId, i)

\* Lines 749-758: the loop over the steps after the cursor.
RECURSIVE lastStepOfTable(_, _, _, _)
lastStepOfTable(list, i, tableId, lastIdx) ==
  IF i > Len(list) THEN lastIdx
  ELSE IF getTableId(list[i].action) # tableId
       THEN lastStepOfTable(list, i + 1, tableId, lastIdx)
  ELSE IF list[i].action.name = "RenameTable"
       THEN lastStepOfTable(list, i + 1, list[i].action.newId, lastIdx)
  ELSE lastStepOfTable(list, i + 1, tableId, i)

\* _getRowsForRecAndNewRec(cursor) on the steps `list`, for the action at k:
\* the rows returned and the steps after the call.
getRowsForRecAndNewRec(list, k) ==
  IF list[k].rowsLast # NoRows
  THEN [rowsBefore |-> list[k].rowsBefore, rowsAfter |-> list[k].rowsLast, list |-> list]
  ELSE LET j == lastStepOfTable(list, k + 1, getTableId(list[k].rowsBefore), k)
       IN [rowsBefore |-> list[k].rowsBefore, rowsAfter |-> list[j].rowsAfter,
           list |-> [list EXCEPT ![k].rowsLast = list[j].rowsAfter]]

InitNewRec ==
  /\ activeBundle = NoBundle
  /\ \E n \in 1..MaxBundleSteps : \E actions \in [1..n -> StepActions] :
       steps = [has |-> TRUE, failed |-> FALSE, applied |-> FALSE,
                list |-> stepsWithRows(actions), rulers |-> <<>>]
  /\ userAttributesMap = EmptyMap
  /\ prevUserAttributesMap = NoPrev
  /\ ruler = [rc |-> EmptyMeta, cache |-> {}]
  /\ docData = [meta |-> EmptyMeta, attrVal |-> AttrRow(1, 0)]
  /\ recoveryMode = FALSE
  /\ last = Call("_getSteps", "ok")
  /\ verified = FALSE
  /\ preMeta = EmptyMeta

\* _checkRows of a data action of the bundle (line 725).
GetRowsForRecAndNewRec ==
  \E k \in 1..Len(steps.list) :
    /\ isDataAction(steps.list[k].action)
    /\ LET r == getRowsForRecAndNewRec(steps.list, k)
       IN /\ steps' = [steps EXCEPT !.list = r.list]
          /\ last' = [op |-> "_getRowsForRecAndNewRec", result |-> "ok", actionIdx |-> k,
                      rowsBefore |-> r.rowsBefore, rowsAfter |-> r.rowsAfter]
    /\ UNCHANGED <<activeBundle, userAttributesMap, prevUserAttributesMap, ruler, docData,
                   recoveryMode, verified, preMeta>>

NextNewRec == GetRowsForRecAndNewRec

SpecNewRec == InitNewRec /\ [][NextNewRec]_vars

(***************************************************************************)
(* The same bundles, with the run of finishedBundle in which the rebuild   *)
(* of the rules does not return: finishedBundle awaits _updateRules (line  *)
(* 290), which awaits update (lines 594, 600), which awaits the update of  *)
(* the rule collection (lines 176, 1311); none of them catches a           *)
(* rejection, so finishedBundle ends at line 290 with the error.           *)
(***************************************************************************)
finishedBundleRebuildRejected ==
  /\ activeBundle.active /\ activeBundle.applied
  /\ updateRulesRebuilds(activeBundle.docActions, ruler.rc)
  /\ last' = Call("finishedBundle", "Error: update")
  /\ UNCHANGED <<activeBundle, steps, userAttributesMap, prevUserAttributesMap, ruler,
                 docData, recoveryMode, verified, preMeta>>

\* The host begins the next bundle whatever became of the last one.
BeginNext ==
  \E s \in Sessions, da \in AttrBundles :
    /\ ValidDocActions(docData, da)
    /\ getGranularAccessForBundle(s, da, <<>>)

NextRebuild ==
  \/ FilterMetaTables
  \/ BeginNext
  \/ CheckAttrs
  \/ ApplyAttrs
  \/ FilterForViewer
  \/ FinishAttrs
  \/ finishedBundleRebuildRejected

SpecRebuild == InitAttrs /\ [][NextRebuild]_vars

(***************************************************************************)
(* Sessions that view the document as another user.  A session is its own  *)
(* role and user id and the link parameter aclAsUserId (0: none); the home *)
(* database knows user 42, with some role on the document or none, and no  *)
(* user 99.  The entry of a session in _userAttributesMap holds the        *)
(* override found for it.  One session makes the calls of a behaviour.     *)
(***************************************************************************)
LinkSessions ==
  [access : {"owners", "editors", "viewers"}, userId : {7}, aclAsUserId : {0, 42, 99}]

\* The role of user 42 on the document in the home database ("null": none).
HomeAccess == {"owners", "editors", "viewers", "null"}

NoOverride == [has |-> FALSE, access |-> "null", user |-> 0]

\* Lines 946-955: the user is looked up in the home database; `access` is
\* docAuth?.access || null and `user` the id of the full user, 0 for null.
lookupOverride(ses, db) ==
  IF ses.aclAsUserId = 42 THEN [has |-> TRUE, access |-> db, user |-> 42]
  ELSE [has |-> TRUE, access |-> "null", user |-> 0]

\* _getUserAttributes for a session with link parameters.
attributesOf(uam, ses) ==
  IF ses \in DOMAIN uam THEN uam[ses] ELSE [rows |-> <<>>, override |-> NoOverride]

\* A resolver that takes the role of the session for the role of the user viewed as.
overrideKeepsAccess(attrs, ses, db) == [lookupOverride(ses, db) EXCEPT !.access = ses.access]

\* Lines 941-956: the override cached for the session, or the one looked up.
overrideOf(attrs, ses, db) ==
  IF attrs.override.has THEN attrs.override ELSE lookupOverride(ses, db)

\* _getUser(docSession): the error thrown ("" for none), the Access and UserID
\* of the UserInfo, and _userAttributesMap after the call.
getUserOf(uam, ses, rc, recovery, db) ==
  LET attrs == attributesOf(uam, ses)
      entry(e) == [t \in DOMAIN uam \cup {ses} |-> IF t = ses THEN e ELSE uam[t]]
  IN IF ses.aclAsUserId # 0 /\ ses.access # "owners"
     THEN [error |-> "Error: only an owner can override user", access |-> "null", userId |-> 0,
           map |-> entry(attrs)]
     ELSE LET over == IF ses.aclAsUserId # 0 THEN overrideOf(attrs, ses, db) ELSE attrs.override
              access == IF ses.aclAsUserId # 0 THEN over.access ELSE ses.access
              userId == IF ses.aclAsUserId # 0 THEN over.user ELSE ses.userId
          IN [error |-> IF getUserThrows(rc, recovery) THEN "ruleError" ELSE "",
              access |-> access, userId |-> userId,
              map |-> entry([attrs EXCEPT !.override = over])]

\* Ruler.getAccess for the session: a PermissionInfo promised before is returned
\* again (the resolution, or its error, is the same); a new one resolves the user.
getAccessOf(uam, rl, ses, recovery, db) ==
  IF ses \in rl.cache THEN [getUserOf(uam, ses, rl.rc, recovery, db) EXCEPT !.map = uam]
  ELSE getUserOf(uam, ses, rl.rc, recovery, db)

\* _getNominalAccess: the Access of the resolved user with a link parameter,
\* the role of the session without one.
getNominalAccessOf(uam, ses, rc, recovery, db) ==
  IF ses.aclAsUserId # 0 THEN getUserOf(uam, ses, rc, recovery, db)
  ELSE [error |-> "", access |-> ses.access, userId |-> ses.userId, map |-> uam]

\* A session of the lifecycle with the given role, for the table access of a
\* PermissionInfo made for a user of that role.
sessionOfRole(access) == IF access = "owners" THEN 1 ELSE IF access = "editors" THEN 2 ELSE 3

\* getTableAccess for the resolved user: no default rule matches a user with no role.
tableAccessAs(rc, access, a) ==
  IF access = "null" THEN "deny"
  ELSE TableAccess(rc, sessionOfRole(access), getAccessForActionType(a), a.tableId)

\* What a call on a session ends with and leaves.
UserCall(op, ses, a, result, res, accessed) ==
  [op |-> op, result |-> result, docSession |-> ses, action |-> a,
   access |-> res.access, userId |-> res.userId, resolved |-> accessed]

userCalled(op, ses, a, result, res, accessed, cached) ==
  /\ last' = UserCall(op, ses, a, result, res, accessed)
  /\ userAttributesMap' = res.map
  /\ ruler' = IF cached THEN cacheAfterGetAccess(ruler, ses) ELSE ruler
  /\ UNCHANGED <<activeBundle, steps, prevUserAttributesMap, docData, recoveryMode,
                 verified, preMeta>>

\* The user actions of the sessions: one of each class of the ingress check.
LinkActions ==
  { Leaf("Calculate", ""), Leaf("EvalCode", ""), Leaf("RemoveView", ""),
    Leaf("UpdateRecord", "T") }

InitUsers ==
  \E meta \in {EmptyMeta, [rules |-> {1}, resources |-> {1}], [rules |-> {1}, resources |-> {}]},
     db \in HomeAccess :
    /\ activeBundle = NoBundle
    /\ steps = NoSteps
    /\ userAttributesMap = EmptyMap
    /\ prevUserAttributesMap = NoPrev
    /\ ruler = [rc |-> meta, cache |-> {}]
    /\ docData = [meta |-> meta, attrVal |-> AttrRow(1, 0), homeAccess |-> db]
    /\ recoveryMode = FALSE
    /\ \E ses \in LinkSessions : last = [op |-> "connect", result |-> "ok", docSession |-> ses]
    /\ verified = FALSE
    /\ preMeta = EmptyMeta

\* getUser(docSession), as the Ruler calls it.
GetUser ==
  \E ses \in {last.docSession} :
    LET res == getUserOf(userAttributesMap, ses, ruler.rc, recoveryMode, docData.homeAccess)
    IN userCalled("getUser", ses, Leaf("", ""), IF res.error # "" THEN res.error ELSE "ok",
                  res, TRUE, FALSE)

\* isOwner(docSession).
IsOwner ==
  \E ses \in {last.docSession} :
    LET res == getNominalAccessOf(userAttributesMap, ses, ruler.rc, recoveryMode,
                                  docData.homeAccess)
    IN userCalled("isOwner", ses, Leaf("", ""),
                  IF res.error # "" THEN res.error
                  ELSE IF res.access = "owners" THEN "true" ELSE "false",
                  res, ses.aclAsUserId # 0, FALSE)

\* assertCanMaybeApplyUserAction(docSession, a) for an action that is not a container.
assertActionOf(ses, a) ==
  LET db == docData.homeAccess
      nominal == getNominalAccessOf(userAttributesMap, ses, ruler.rc, recoveryMode, db)
      perm == getAccessOf(userAttributesMap, ruler, ses, recoveryMode, db)
      idle == [error |-> "", access |-> "null", userId |-> 0, map |-> userAttributesMap]
  IN IF a.name \in OK_ACTIONS
     THEN userCalled("assertCanMaybeApplyUserAction", ses, a, "true", idle, FALSE, FALSE)
     ELSE IF a.name \in SPECIAL_ACTIONS
     THEN (IF ~haveRules(ruler.rc)
           THEN userCalled("assertCanMaybeApplyUserAction", ses, a, "true", idle, FALSE, FALSE)
           ELSE userCalled("assertCanMaybeApplyUserAction", ses, a,
                           IF nominal.error # "" THEN nominal.error
                           ELSE IF nominal.access # "owners" THEN "ACL_DENY" ELSE "true",
                           nominal, ses.aclAsUserId # 0, FALSE))
     ELSE IF a.name \in SURPRISING_ACTIONS
     THEN userCalled("assertCanMaybeApplyUserAction", ses, a,
                     IF nominal.error # "" THEN nominal.error
                     ELSE IF nominal.access # "owners" THEN "ACL_DENY" ELSE "true",
                     nominal, ses.aclAsUserId # 0, FALSE)
     ELSE userCalled("assertCanMaybeApplyUserAction", ses, a,
                     IF perm.error # "" THEN perm.error
                     ELSE IF tableAccessAs(ruler.rc, perm.access, a) = "deny" THEN "ACL_DENY"
                     ELSE "true",
                     perm, TRUE, TRUE)

AssertAction == \E a \in LinkActions : assertActionOf(last.docSession, a)

NextUsers ==
  \/ GetUser
  \/ IsOwner
  \/ AssertAction

SpecUsers == InitUsers /\ [][NextUsers]_vars

(***************************************************************************)
(* Properties of the bundle lifecycle.                                     *)
(***************************************************************************)
\* C1: a begin while a bundle is active, in any phase, throws and leaves the
\* active bundle as it was; a begin with no active bundle succeeds and makes
\* its bundle the active one.
BeginRejectsOverlap ==
  [][last'.op = "getGranularAccessForBundle" =>
       IF activeBundle.active
       THEN last'.result = "Error: bundle in progress" /\ activeBundle' = activeBundle
       ELSE last'.result = "ok" /\ activeBundle'.active /\ ~activeBundle'.applied]_vars

\* A begin was rejected while an applied bundle was active.
BeginRejected ==
  /\ last = Call("getGranularAccessForBundle", "Error: bundle in progress")
  /\ activeBundle.active
  /\ activeBundle.applied

LifecycleCalls == {"canApplyBundle", "appliedBundle", "sendDocUpdateForBundle"}

\* C2, as the engine enforces it: canApplyBundle, appliedBundle and
\* sendDocUpdateForBundle fail for want of a bundle exactly when no bundle is
\* active, whatever the phase of the bundle; appliedBundle sets `applied`,
\* which stays set while the bundle is active; only finishedBundle ends a bundle.
LifecycleAsEnforced ==
  /\ [](last.op \in LifecycleCalls =>
          (last.result = "Error: no active bundle" <=> ~activeBundle.active))
  /\ [][/\ last'.op = "appliedBundle" /\ activeBundle.active => activeBundle'.applied
        /\ activeBundle.active /\ activeBundle.applied /\ activeBundle'.active
             => activeBundle'.applied
        /\ activeBundle.active /\ ~activeBundle'.active => last'.op = "finishedBundle"]_vars

\* C2, as stated: the engine accepts appliedBundle only on a bundle whose
\* canApplyBundle has passed, sendDocUpdateForBundle only on an applied bundle,
\* and canApplyBundle only on a bundle not yet applied.
LifecycleIsLinear ==
  /\ last = Call("appliedBundle", "ok") => verified
  /\ last = Call("sendDocUpdateForBundle", "ok") => activeBundle.applied
  /\ last.op = "canApplyBundle" /\ last.result # "Error: no active bundle"
       => ~activeBundle.applied

\* appliedBundle was accepted on a bundle that canApplyBundle never passed.
AppliedWithoutVerification ==
  /\ last = Call("appliedBundle", "ok")
  /\ activeBundle.applied
  /\ ~verified

FinishedIdempotent ==
  [][last'.op = "finishedBundle" /\ ~activeBundle.active =>
       /\ last'.result = "ignored"
       /\ UNCHANGED <<activeBundle, steps, userAttributesMap, prevUserAttributesMap,
                      ruler, docData, recoveryMode>>]_vars

\* finishedBundle was called with no bundle while the caches held entries.
FinishedWithNoBundle ==
  /\ last = Call("finishedBundle", "ignored")
  /\ ruler.cache # {}
  /\ DOMAIN userAttributesMap # {}

(***************************************************************************)
(* Properties of deliberate rule changes.                                  *)
(***************************************************************************)
\* C5: hasDeliberateRuleChange of the active bundle is true exactly when some
\* user action of the bundle, at any position and any depth of nesting in
\* containers, has an ACL table as its table.
ScanFindsEveryAclAction ==
  activeBundle.active =>
    (activeBundle.hasDeliberateRuleChange <=> TargetsAclTable(activeBundle.userActions))

\* C6: canApplyBundle on a bundle of a session that is not an owner, whose user
\* actions target an ACL table directly or nested, fails with ACL_DENY.
NonOwnerRuleChangeDenied ==
  /\ last.op = "canApplyBundle"
  /\ activeBundle.active
  /\ TargetsAclTable(activeBundle.userActions)
  /\ ~isOwner(activeBundle.docSession)
  => last.result = "ACL_DENY"

\* C7: the filter of a subscriber on a bundle whose user actions target an ACL
\* table fails with NEED_RELOAD, so that no DocAction reaches the subscriber.
RuleChangeForcesReload ==
  /\ last.op = "_filterDocUpdate"
  /\ activeBundle.active
  /\ TargetsAclTable(activeBundle.userActions)
  => last.result = "NEED_RELOAD"

(***************************************************************************)
(* Properties of the user attributes.                                      *)
(***************************************************************************)
touchesTable(docActions, tableId) ==
  \E i \in 1..Len(docActions) : docActions[i].tableId = tableId

\* C8: the attributes put aside are set only while a bundle is active and
\* applied, by the appliedBundle of a bundle whose DocActions touch a table
\* that the rules in force use as a source of user attributes.
PrevOnlyForAppliedAttrChange ==
  /\ [](prevUserAttributesMap.has =>
          /\ activeBundle.active
          /\ activeBundle.applied
          /\ touchesTable(activeBundle.docActions, "A"))
  /\ [][~prevUserAttributesMap.has /\ prevUserAttributesMap'.has =>
          /\ last'.op = "appliedBundle"
          /\ activeBundle' = [activeBundle EXCEPT !.applied = TRUE]
          /\ attrChange(activeBundle.docActions, ruler.rc)]_vars

\* Attributes of some session are put aside for an applied bundle.
PrevPutAside ==
  /\ prevUserAttributesMap.has
  /\ DOMAIN prevUserAttributesMap.map # {}
  /\ activeBundle.applied
  /\ last.op = "_filterDocUpdate"

\* C9, as the engine does it: an entry of the user-attribute map is dropped only
\* together with the whole map, by update, by the rebuild of the rules in
\* finishedBundle, or by the appliedBundle of a bundle that touches a source of
\* user attributes; no other call drops an entry.
EntriesDroppedOnlyByReset ==
  [][(\E s \in DOMAIN userAttributesMap : s \notin DOMAIN userAttributesMap') =>
       /\ userAttributesMap' = EmptyMap
       /\ \/ last'.op = "update"
          \/ /\ last'.op = "finishedBundle"
             /\ activeBundle.applied
             /\ updateRulesRebuilds(activeBundle.docActions, ruler.rc)
          \/ /\ last'.op = "appliedBundle"
             /\ haveRules(ruler.rc)
             /\ attrChange(activeBundle.docActions, ruler.rc)]_vars

\* C9, as stated: no call drops the entry of a session (no session of the model
\* is ever released).
EntriesSurvive ==
  [][\A s \in DOMAIN userAttributesMap : s \in DOMAIN userAttributesMap']_vars

\* appliedBundle has moved the entries aside and left an empty map.
EntriesDropped ==
  /\ last = Call("appliedBundle", "ok")
  /\ prevUserAttributesMap.has
  /\ DOMAIN prevUserAttributesMap.map # {}
  /\ userAttributesMap = EmptyMap

(***************************************************************************)
(* Properties of the Ruler of a step.                                      *)
(***************************************************************************)
isAclStep(docActions, k) == isAclTable(docActions[k].tableId)

\* The first step of the maximal run of ACL actions that holds step k, or k
\* itself when step k is not an ACL action.
runStart(docActions, k) ==
  IF ~isAclStep(docActions, k) THEN k
  ELSE CHOOSE j \in 1..k :
         /\ \A i \in j..k : isAclStep(docActions, i)
         /\ j = 1 \/ ~isAclStep(docActions, j - 1)

\* The ACL tables as the actions strictly before step j leave them.
rulesBefore(docActions, j) == receiveMetaActions(preMeta, SubSeq(docActions, 1, j - 1))

\* C10: in a bundle that tracks metadata every step carries a Ruler.  The Ruler
\* of step k is read from the ACL tables as left by the actions before the
\* run of ACL actions that holds k (before k itself when k is no ACL action);
\* as long as no ACL action precedes that run it is the Ruler the steps began
\* with, the engine's own before the bundle is applied.  All steps of a run
\* carry the same Ruler, and the first step after a run carries a new one.
StepRulerBatched ==
  steps.has /\ ~steps.failed /\ activeBundle.active /\ needsMeta(activeBundle.docActions) =>
    LET da == activeBundle.docActions
        st == steps.list
    IN /\ Len(st) = Len(da)
       /\ \A k \in 1..Len(st) :
            LET j == runStart(da, k) IN
            /\ st[k].action = da[k]
            /\ st[k].hasRuler
            /\ IF st[k].ruler = 0
               THEN ~steps.applied /\ \A i \in 1..(j - 1) : ~isAclStep(da, i)
               ELSE steps.rulers[st[k].ruler].rc = rulesBefore(da, j)
            /\ (\E i \in 1..(j - 1) : isAclStep(da, i)) => st[k].ruler = st[j].ruler
            /\ k > 1 /\ isAclStep(da, k) => st[k].ruler = st[k - 1].ruler
            /\ k > 1 /\ ~isAclStep(da, k) /\ isAclStep(da, k - 1)
                 => st[k].ruler \notin { st[i].ruler : i \in 1..(k - 1) }

\* Steps with a run of two ACL actions between two other actions: the Ruler
\* is rebuilt once, after the run.
RulerRebuiltAfterRun ==
  /\ steps.has
  /\ Len(steps.list) = 4
  /\ ~isAclStep(activeBundle.docActions, 1)
  /\ isAclStep(activeBundle.docActions, 2)
  /\ isAclStep(activeBundle.docActions, 3)
  /\ ~isAclStep(activeBundle.docActions, 4)
  /\ steps.list[3].ruler = steps.list[1].ruler
  /\ steps.list[4].ruler # steps.list[3].ruler

(***************************************************************************)
(* Properties of row pruning (SpecRows).                                   *)
(***************************************************************************)
\* The step of the bundle, and the action it was computed for.
rowStep == steps.list[1]

\* A call of the filter on the broadcast message.
messageCall == last.op = "filterOutgoingDocActions" /\ last.message

\* A call of the filter on the broadcast message that returned.
filteredMessage == messageCall /\ last.result = "ok"

\* The viewer of the call has row-level read access to the table.
viewerIsMixed == TableAccess(ruler.rc, last.docSession, "read", "R") = "mixed"

\* Rows of the step the viewer of the call may not read, before and after it.
forbiddenBefore ==
  { id \in idsOf(rowStep.rowsBefore) :
      RowAccess(ruler.rc, last.docSession, rowStep.rowsBefore, id) = "deny" }

forbiddenAfter ==
  { id \in idsOf(rowStep.rowsAfter) :
      RowAccess(ruler.rc, last.docSession, rowStep.rowsAfter, id) = "deny" }

emittedIds == UNION { idsOf(last.emitted[i]) : i \in DOMAIN last.emitted }

\* C11: under row-level read access the filter returns, and a row id that is
\* forbidden to the viewer after the step appears in no action emitted to that
\* viewer for the step, except in a BulkRemoveRecord.
ForbiddenRowsNotEmitted ==
  messageCall /\ viewerIsMixed =>
    /\ last.result = "ok"
    /\ \A i \in DOMAIN last.emitted :
         last.emitted[i].name # "BulkRemoveRecord" =>
           idsOf(last.emitted[i]) \cap forbiddenAfter = {}

\* A forbidden row was touched next to a readable one, and something was emitted.
ForbiddenRowStripped ==
  /\ filteredMessage /\ viewerIsMixed
  /\ idsOf(rowStep.action) \cap forbiddenAfter # {}
  /\ \E i \in DOMAIN last.emitted : last.emitted[i].name # "BulkRemoveRecord"

\* C12: every row id carried by a synthetic BulkAddRecord or BulkRemoveRecord of
\* row pruning is a row id of rowsAfter of the step.  An emitted action is
\* synthetic when it is not the (pruned) original: it has another name.
SyntheticRowsExistAfter ==
  filteredMessage /\ viewerIsMixed =>
    \A i \in DOMAIN last.emitted :
      last.emitted[i].name # rowStep.action.name =>
        /\ last.emitted[i].name \in {"BulkAddRecord", "BulkRemoveRecord"}
        /\ idsOf(last.emitted[i]) \subseteq idsOf(rowStep.rowsAfter)

\* An update was answered with both a forced addition and a forced removal.
SyntheticBoth ==
  /\ filteredMessage /\ viewerIsMixed
  /\ rowStep.action.name \in UpdateNames
  /\ \E i, j \in DOMAIN last.emitted :
       last.emitted[i].name = "BulkAddRecord" /\ last.emitted[j].name = "BulkRemoveRecord"

\* C13, as stated: the row ids of the emitted actions are among (rowsAfter minus
\* forbiddenAfter) and (forbiddenBefore minus forbiddenAfter).
EmittedIdsWithinAfter ==
  filteredMessage =>
    emittedIds \subseteq (idsOf(rowStep.rowsAfter) \ forbiddenAfter)
                           \cup (forbiddenBefore \ forbiddenAfter)

\* C13, as the code has it: every emitted row id is a row readable after the
\* step or a row that was readable before it, and the ids that are not readable
\* after the step are carried by removals only.
EmittedIdsWithinReadable ==
  filteredMessage =>
    /\ emittedIds \subseteq (idsOf(rowStep.rowsAfter) \ forbiddenAfter)
                              \cup (idsOf(rowStep.rowsBefore) \ forbiddenBefore)
    /\ \A i \in DOMAIN last.emitted :
         last.emitted[i].name \notin RemoveNames =>
           idsOf(last.emitted[i]) \subseteq idsOf(rowStep.rowsAfter) \ forbiddenAfter

\* The removal of a readable row was passed on to a viewer with row-level access.
ReadableRowRemoved ==
  /\ filteredMessage /\ viewerIsMixed
  /\ rowStep.action.name \in RemoveNames
  /\ \E id \in emittedIds : id \notin idsOf(rowStep.rowsAfter)
  /\ forbiddenBefore # {}

\* The columns the viewer of the call may read.
readableCols == { c \in RowCols : ColumnAccess(ruler.rc, last.docSession, c) # "deny" }

\* Rows the step touches that the viewer of the call may read before and after.
readableThroughout ==
  { id \in idsOf(rowStep.action) : id \notin forbiddenBefore /\ id \notin forbiddenAfter }

\* C14: a touched row the viewer may read both before and after the step stays
\* in the original action as it is emitted, with the cell values of the step in
\* every column of the action the viewer may read.
ReadableRowsKeepValues ==
  filteredMessage =>
    \A id \in readableThroughout :
      rowStep.action.name \in RemoveNames
        \/ DOMAIN rowStep.action.colValues \cap readableCols # {} =>
          \E i \in DOMAIN last.emitted :
            /\ last.emitted[i].name = rowStep.action.name
            /\ id \in idsOf(last.emitted[i])
            /\ \A c \in DOMAIN rowStep.action.colValues \cap readableCols :
                 /\ c \in DOMAIN last.emitted[i].colValues
                 /\ cellOf(last.emitted[i], id, c) = cellOf(rowStep.rowsAfter, id, c)

\* C16: the filter applied to its own output returns that same output.
FilterIdempotent ==
  last.op = "filterOutgoingDocActions" /\ ~last.message =>
    last.result = "ok" /\ last.emitted = last.docActions

\* Rows an update makes readable, and rows it makes unreadable, to the viewer.
madeReadable ==
  { id \in idsOf(rowStep.action) : id \in forbiddenBefore /\ id \notin forbiddenAfter }

madeUnreadable ==
  { id \in idsOf(rowStep.action) : id \notin forbiddenBefore /\ id \in forbiddenAfter }

updateFiltered == filteredMessage /\ viewerIsMixed /\ rowStep.action.name \in UpdateNames

\* C19: a row an update makes readable is stripped from the update, and the
\* viewer receives a BulkAddRecord carrying the row as it is in rowsAfter, in all
\* the columns the viewer may read.
MadeReadableIsAdded ==
  updateFiltered =>
    \A id \in madeReadable :
      /\ \A i \in DOMAIN last.emitted :
           last.emitted[i].name \in UpdateNames => id \notin idsOf(last.emitted[i])
      /\ \E i \in DOMAIN last.emitted :
           /\ last.emitted[i].name = "BulkAddRecord"
           /\ id \in idsOf(last.emitted[i])
           /\ DOMAIN last.emitted[i].colValues = readableCols
           /\ \A c \in readableCols :
                cellOf(last.emitted[i], id, c) = cellOf(rowStep.rowsAfter, id, c)

\* An update of one column made a row readable.
RowMadeReadable ==
  /\ updateFiltered
  /\ madeReadable # {}
  /\ DOMAIN rowStep.action.colValues = {"a"}

\* C20: a row an update makes unreadable is stripped from the update, and the
\* viewer receives a BulkRemoveRecord of exactly the rows made unreadable, with
\* no cell values.
MadeUnreadableIsRemoved ==
  updateFiltered /\ madeUnreadable # {} =>
    /\ \A i \in DOMAIN last.emitted :
         last.emitted[i].name \in UpdateNames =>
           idsOf(last.emitted[i]) \cap madeUnreadable = {}
    /\ \E i \in DOMAIN last.emitted :
         /\ last.emitted[i].name = "BulkRemoveRecord"
         /\ idsOf(last.emitted[i]) = madeUnreadable
         /\ DOMAIN last.emitted[i].colValues = {}
    /\ \A i \in DOMAIN last.emitted :
         last.emitted[i].name = "BulkRemoveRecord" => idsOf(last.emitted[i]) = madeUnreadable

\* An update made one of its rows unreadable and left another readable.
RowMadeUnreadable ==
  /\ updateFiltered
  /\ madeUnreadable # {}
  /\ readableThroughout # {}

(***************************************************************************)
(* Properties of the requests (SpecRequests).                              *)
(***************************************************************************)
ingressCall == last.op = "assertCanMaybeApplyUserActions"

\* C17: a list of Calculate actions passes the ingress check with result true,
\* for every session and every rule set, and the check consults neither the
\* rules nor the role nor the PermissionInfo of the session.
CalculatePassesIngress ==
  ingressCall /\ (\A i \in DOMAIN last.actions : last.actions[i].name = "Calculate") =>
    /\ last.result = "true"
    /\ ~last.consulted

\* Two Calculate actions were checked for a non-owner under rules that restrict.
CalculateUnderRules ==
  /\ ingressCall
  /\ last.actions = <<Leaf("Calculate", ""), Leaf("Calculate", "")>>
  /\ hasNuancedAccess(ruler.rc, last.docSession)

\* An action the check denies outright: a special action under nuanced access,
\* a surprising action without full access, at any depth of nesting.
RECURSIVE containsHardDenial(_, _, _)
containsHardDenial(rc, s, actions) ==
  IF actions = <<>> THEN FALSE
  ELSE \/ Head(actions).name \in SPECIAL_ACTIONS /\ hasNuancedAccess(rc, s)
       \/ Head(actions).name \in SURPRISING_ACTIONS /\ ~hasFullAccess(s)
       \/ Head(actions).name \in ContainerNames /\ containsHardDenial(rc, s, Head(actions).sub)
       \/ containsHardDenial(rc, s, Tail(actions))

\* C18: the ingress check throws ACL_DENY whenever the list contains a hard
\* denial, at any position or nested in a container, and returns false only
\* when no action of the list is a hard denial.
HardDenialAlwaysThrown ==
  ingressCall /\ ~ruleError(ruler.rc) =>
    /\ containsHardDenial(ruler.rc, last.docSession, last.actions) => last.result = "ACL_DENY"
    /\ last.result = "false" => ~containsHardDenial(ruler.rc, last.docSession, last.actions)

\* C15: a viewer who is not an owner never receives a row of _grist_ACLRules or
\* _grist_ACLResources through filterMetaTables, once the rules of the document
\* are loaded.
AclTablesOnlyForOwners ==
  /\ last.op = "filterMetaTables"
  /\ last.result = "ok"
  /\ ruler.rc = docData.meta
  /\ ~isOwner(last.docSession)
  => last.tables.rules = {} /\ last.tables.resources = {}

(***************************************************************************)
(* Properties of the pruning functions (SpecPrune).                        *)
(***************************************************************************)
\* The columns of table "R" the viewer of the call is denied.
deniedCols(cols) == { c \in cols : ColumnAccess(ruler.rc, last.docSession, c) = "deny" }

\* C21: column pruning of an action that carries cells removes exactly the
\* columns whose read check is deny, except manualSort, keeps the row ids and
\* the cells of the other columns, and returns nothing exactly when no column
\* is left; the owner gets the action as it was.
ColumnsPrunedExactly ==
  last.op = "_pruneColumns" /\ last.action.name \notin RemoveNames =>
    LET cols == DOMAIN last.action.colValues
        kept == { c \in cols : c = "manualSort" \/ c \notin deniedCols(cols) }
    IN /\ last.pruned = <<>> <=> kept = {}
       /\ last.pruned # <<>> =>
            /\ Len(last.pruned) = 1
            /\ last.pruned[1].name = last.action.name
            /\ last.pruned[1].rowIds = last.action.rowIds
            /\ DOMAIN last.pruned[1].colValues = kept
            /\ \A c \in kept : last.pruned[1].colValues[c] = last.action.colValues[c]
       /\ isOwner(last.docSession) => last.pruned = <<last.action>>

\* A denied manualSort column was kept while the other denied column went.
ManualSortKept ==
  /\ last.op = "_pruneColumns"
  /\ ~isOwner(last.docSession)
  /\ {"b", "manualSort"} \subseteq deniedCols(DOMAIN last.action.colValues)
  /\ last.pruned # <<>>
  /\ DOMAIN last.pruned[1].colValues = {"manualSort"}

\* Rows of the call the viewer may not read, in the table before the action and
\* in the table after it.
deniedIn(data) ==
  { id \in idsOf(data) : RowAccess(ruler.rc, last.docSession, data, id) = "deny" }

\* The name and the row ids of each action of a list.
shapeOf(acts) == [i \in DOMAIN acts |-> [name |-> acts[i].name, ids |-> idsOf(acts[i])]]

Component(name, ids) == IF ids = {} THEN <<>> ELSE <<[name |-> name, ids |-> ids]>>

\* C29: row pruning of one action returns at most three actions, in this
\* order: a BulkAddRecord of the touched rows that were forbidden before the
\* action and are readable after it, the original action without the rows
\* forbidden before or after, a BulkRemoveRecord of the touched rows that were
\* readable before and are forbidden after; a component with no rows is absent.
PrunedRowsInOrder ==
  last.op = "_pruneRows" =>
    LET ids == idsOf(last.action)
        fb == deniedIn(last.rowsBefore) \cap ids
        fa == deniedIn(last.rowsAfter) \cap ids
    IN /\ last.result = "ok"
       /\ Len(last.revised) <= 3
       /\ shapeOf(last.revised) =
            Component("BulkAddRecord", (fb \ fa) \cap idsOf(last.rowsAfter))
            \o Component(last.action.name, ids \ (fb \cup fa))
            \o Component("BulkRemoveRecord", (fa \ fb) \cap idsOf(last.rowsBefore))

\* An update was revised into an addition, the update and a removal.
ThreeRevisedActions ==
  /\ last.op = "_pruneRows"
  /\ Len(last.revised) = 3
  /\ last.revised[1].name = "BulkAddRecord"
  /\ last.revised[2].name = "BulkUpdateRecord"
  /\ last.revised[3].name = "BulkRemoveRecord"

\* C30: row stripping keeps a bulk action well formed.  Every column left has
\* as many cells as there are row ids left, the rows left are those not removed,
\* in their order, each with its own cells; nothing is left of a bulk action that
\* loses all its rows or of an action on one row whose row is removed.
StrippedRowsWellFormed ==
  last.op = "_removeRows" =>
    LET a == last.action
        keptIds == idsOf(a) \ last.rowIds
    IN /\ last.left = <<>> <=> keptIds = {}
       /\ last.left # <<>> =>
            /\ last.left[1].name = a.name
            /\ last.left[1].rowIds = selectIds(a.rowIds, keptIds)
            /\ DOMAIN last.left[1].colValues = DOMAIN a.colValues
            /\ \A c \in DOMAIN a.colValues :
                 /\ Len(last.left[1].colValues[c]) = Len(last.left[1].rowIds)
                 /\ \A i \in DOMAIN last.left[1].rowIds :
                      last.left[1].colValues[c][i] = cellOf(a, last.left[1].rowIds[i], c)

\* The middle row of a bulk action with cells went and the two others stayed.
MiddleRowStripped ==
  /\ last.op = "_removeRows"
  /\ last.action.name \notin SingleNames \cup RemoveNames
  /\ last.action.rowIds = <<1, 2, 3>>
  /\ last.rowIds = {2}
  /\ last.left # <<>>
  /\ last.left[1].rowIds = <<1, 3>>
  /\ last.action.colValues["a"][1] # last.action.colValues["a"][2]

(***************************************************************************)
(* Properties of the censoring of structural tables (SpecMeta).            *)
(***************************************************************************)
\* The refs of the tables the viewer of the call may not read at all.
deniedTableRefs ==
  { ref \in DOMAIN last.given.Tables :
      TableAccess(ruler.rc, last.docSession, "read", last.given.Tables[ref].tableId) = "deny" }

\* The sections of the given tables that show a denied table.
deniedSections ==
  { id \in DOMAIN last.given.Sections : last.given.Sections[id].tableRef \in deniedTableRefs }

\* The columns of the given tables the viewer is denied on their own.
deniedColumnRows ==
  { id \in DOMAIN last.given.Columns :
      /\ last.given.Columns[id].parentId = 2
      /\ last.given.Columns[id].colId # "manualSort"
      /\ ColumnAccess(ruler.rc, last.docSession, last.given.Columns[id].colId) = "deny" }

metaFiltered ==
  /\ last.op = "filterMetaTables"
  /\ last.result = "ok"
  /\ ~canReadEverything(ruler.rc, last.docSession)

\* C22: for a viewer who cannot read everything, filterMetaTables blanks the
\* _grist_Tables row of every table whose read permission is deny, every
\* column row of that table, every section that shows it and the name of the
\* view of every such section; a row of these tables that belongs to no denied
\* table, column or section comes back as it was given, and the tables of the
\* caller are not changed.
DeniedTablesBlanked ==
  metaFiltered =>
    /\ \A ref \in deniedTableRefs :
         /\ last.tables.Tables[ref].tableId = ""
         /\ \A c \in DOMAIN last.given.Columns :
              last.given.Columns[c].parentId = ref =>
                last.tables.Columns[c] = [parentId |-> 0, colId |-> "", label |-> ""]
    /\ \A id \in deniedSections :
         /\ last.tables.Sections[id].tableRef = 0 /\ last.tables.Sections[id].title = ""
         /\ last.given.Sections[id].parentId # 0 =>
              last.tables.Views[last.given.Sections[id].parentId].name = ""
    /\ \A ref \in DOMAIN last.given.Tables \ deniedTableRefs :
         last.tables.Tables[ref] = last.given.Tables[ref]
    /\ \A c \in DOMAIN last.given.Columns :
         last.given.Columns[c].parentId \notin deniedTableRefs /\ c \notin deniedColumnRows =>
           last.tables.Columns[c] = last.given.Columns[c]
    /\ \A id \in DOMAIN last.given.Sections \ deniedSections :
         last.tables.Sections[id] = last.given.Sections[id]
    /\ \A v \in DOMAIN last.given.Views :
         (\A id \in deniedSections : last.given.Sections[id].parentId # v) =>
           last.tables.Views[v] = last.given.Views[v]
    /\ last.input = last.given

\* A denied table was shown in one view next to a readable table in another.
DeniedTableInView ==
  /\ metaFiltered
  /\ \E id \in deniedSections : last.given.Sections[id].parentId = 1
  /\ \E id \in DOMAIN last.given.Sections \ deniedSections : last.given.Sections[id].parentId = 2
  /\ last.tables.Views[1].name = ""
  /\ last.tables.Views[2].name = "v2"
  /\ last.tables # last.given


(***************************************************************************)
(* Properties of the outgoing filter of one action (SpecDispatch).         *)
(***************************************************************************)
\* The verdict of the viewer's table read permission for the filtered action.
dispatchVerdict == TableAccess(ruler.rc, last.docSession, "read", last.action.tableId)

\* No emitted action carries a column the viewer may not read.
noDeniedColumn(acts) ==
  \A i \in 1..Len(acts) : \A c \in DOMAIN acts[i].colValues :
    c = "manualSort" \/ ColumnAccess(ruler.rc, last.docSession, c) # "deny"

\* What CensorshipInfo makes of a surviving data action of a structural table:
\* an action of an ACL table reaches an owner only, and the first emitted action
\* is the action with the censored rows blanked in the columns it carries.
passedThroughCensorship(a, emitted, censor) ==
  IF a.tableId \in AclTables
  THEN emitted = (IF isOwner(last.docSession) THEN <<a>> ELSE <<>>)
  ELSE /\ Len(emitted) >= 1
       /\ emitted[1].name = a.name /\ emitted[1].tableId = a.tableId
       /\ emitted[1].rowIds = a.rowIds
       /\ DOMAIN emitted[1].colValues = DOMAIN a.colValues
       /\ \A c \in DOMAIN a.colValues :
            emitted[1].colValues[c][1] =
              IF a.rowIds[1] \in censor[metaKey(a.tableId)]
              THEN CensoredValues(a.tableId)[c] ELSE a.colValues[c][1]

\* C28: the outgoing filter of one action goes by the viewer's read permission
\* on the action's table at the step.  With deny nothing is sent; with allow
\* the action is sent as it is; with mixedColumns the one thing sent is the
\* action with its columns pruned, on all of its rows; with any other verdict
\* the rows are pruned first and the columns of each revised action after.  A
\* data action on a structural table that survives is censored by the
\* CensorshipInfo of the metadata after the step.
DispatchByReadVerdict ==
  (last.op = "_filterOutgoingDocAction" /\ last.result = "ok") =>
    IF last.action.tableId \in STRUCTURAL_TABLES
    THEN /\ dispatchVerdict = "allow"
         /\ passedThroughCensorship(last.action, last.emitted,
              CensorshipInfo(ruler.rc, last.docSession,
                             receiveStructural(last.metaBefore, last.action)))
    ELSE CASE dispatchVerdict = "deny" -> last.emitted = <<>>
           [] dispatchVerdict = "allow" -> last.emitted = <<last.action>>
           [] dispatchVerdict = "mixedColumns" ->
                /\ last.emitted = pruneColumns(ruler.rc, last.docSession, last.action)
                /\ noDeniedColumn(last.emitted)
                /\ \A i \in 1..Len(last.emitted) : last.emitted[i].rowIds = last.action.rowIds
           [] OTHER ->
                /\ last.emitted =
                     pruneColumnsOfAll(ruler.rc, last.docSession,
                       pruneRows(ruler.rc, last.docSession,
                                 RowStep(last.action, last.rowsBefore), last.action).revised)
                /\ noDeniedColumn(last.emitted)

\* A row-pruned and column-pruned action was sent, and a censored structural one.
MixedVerdictPrunedBoth ==
  /\ last.op = "_filterOutgoingDocAction" /\ last.result = "ok"
  /\ last.action.tableId = "R"
  /\ dispatchVerdict \notin {"deny", "allow", "mixedColumns"}
  /\ Len(last.emitted) = 1
  /\ Len(last.emitted[1].rowIds) < Len(last.action.rowIds)
  /\ DOMAIN last.emitted[1].colValues # DOMAIN last.action.colValues


\* A section was made to show a denied table: it is sent blanked, with the
\* update that blanks the name of its view.
SectionCensoredWithView ==
  /\ last.op = "_filterOutgoingDocAction"
  /\ last.action.tableId = "_grist_Views_section"
  /\ Len(last.emitted) = 2
  /\ last.emitted[1].colValues["tableRef"][1] = 0
  /\ last.emitted[2].tableId = "_grist_Views"
  /\ last.emitted[2].colValues["name"][1] = ""


(***************************************************************************)
(* Properties of the bundle under the per-viewer filters (SpecRows).       *)
(***************************************************************************)
\* The cells of an addition or update are those of the rows after the step.
cellsOfStep(act) ==
  act.name \in AddNames \cup UpdateNames =>
    \A i \in 1..Len(act.rowIds) : \A c \in DOMAIN act.colValues :
      act.colValues[c][i] = cellOf(rowStep.rowsAfter, act.rowIds[i], c)

\* C27: filtering the bundle for one viewer modifies neither the DocActions of
\* the bundle nor the cached steps: whichever viewers were served before, the
\* action of the bundle and that of its step carry the cells of the step, and
\* a viewer who may read a cell of a row is sent its value, not CENSORED.
FilteringLeavesBundleIntact ==
  /\ cellsOfStep(activeBundle.docActions[1])
  /\ cellsOfStep(rowStep.action)
  /\ filteredMessage =>
       \A i \in DOMAIN last.emitted : \A c \in DOMAIN last.emitted[i].colValues :
         \A k \in 1..Len(last.emitted[i].rowIds) :
           (ColumnAccess(ruler.rc, last.docSession, c) # "deny"
              /\ last.emitted[i].name \notin RemoveNames)
             => last.emitted[i].colValues[c][k] # CENSORED


(***************************************************************************)
(* Properties of the resolution of the user (SpecRequests).                *)
(***************************************************************************)
\* The last call resolved the user of its session (_getUser).
resolvedUser ==
  \/ last.op = "filterMetaTables"
  \/ last.op = "assertCanMaybeApplyUserActions" /\ last.accessed

\* C24: while the rule collection has a ruleError and the engine is not in
\* recovery mode, every call that resolves the user of a session fails with
\* the ruleError, for every session; in recovery mode no call raises it.
RuleErrorFailsResolution ==
  /\ (ruleError(ruler.rc) /\ ~recoveryMode /\ resolvedUser) => last.result = "ruleError"
  /\ (recoveryMode \/ ~ruleError(ruler.rc)) => last.result # "ruleError"

\* An ingress check that needed the user failed with the ruleError.
IngressFailedOnRuleError ==
  /\ last.op = "assertCanMaybeApplyUserActions" /\ last.accessed
  /\ ruleError(ruler.rc) /\ ~recoveryMode
  /\ last.result = "ruleError"
  /\ ~isOwner(last.docSession)

\* In recovery mode a call resolved the user under a ruleError and returned.
RecoveryResolvesUser ==
  /\ resolvedUser /\ ruleError(ruler.rc) /\ recoveryMode
  /\ last.result \in {"ok", "true"}


(***************************************************************************)
(* Properties of the validation of rule changes (canApplyBundle).          *)
(***************************************************************************)
\* The bundle touches an ACL table, and the rules of the four tables with its
\* DocActions applied cannot be loaded.
bundleBreaksRules ==
  /\ activeBundle.active
  /\ \E i \in 1..Len(activeBundle.docActions) :
       activeBundle.docActions[i].tableId \in AclTables
  /\ ruleError(receiveMetaActions(docData.meta, activeBundle.docActions))

servedHolder ==
  /\ last.op = "filterOutgoingDocActions" /\ last.message
  /\ prevUserAttributesMap.has
  /\ last.docSession \in DOMAIN prevUserAttributesMap.map
  /\ prevUserAttributesMap.map[last.docSession].rows # <<>>

\* C26: in the broadcast of an applied bundle that changed the source table of
\* a user attribute, a viewer whose attributes after the bundle differ from
\* those held for that viewer before it gets NEED_RELOAD and no action, and a
\* viewer whose attributes are all as held gets the filtered actions.
ChangedAttributesNeedReload ==
  servedHolder =>
    IF prevUserAttributesMap.map[last.docSession].rows # <<docData.attrVal>>
    THEN last.result = "NEED_RELOAD" /\ last.emitted = <<>>
    ELSE /\ last.result = "ok"
         /\ last.emitted =
              SelectSeq(last.docActions,
                        LAMBDA a : TableAccess(ruler.rc, last.docSession, "read", a.tableId) # "deny")

\* What the check does tell apart: a viewer is told to reload exactly when a
\* cell of the record found differs from the cell held.
ChangedCellsNeedReload ==
  servedHolder =>
    (last.result = "NEED_RELOAD"
       <=> prevUserAttributesMap.map[last.docSession].rows[1].Level # docData.attrVal.Level)

\* A viewer whose attribute changed was told to reload.
ViewerToldToReload ==
  /\ servedHolder
  /\ prevUserAttributesMap.map[last.docSession].rows # <<docData.attrVal>>
  /\ last.result = "NEED_RELOAD"
  /\ ~isOwner(last.docSession)

\* A viewer whose attribute is as before was sent both actions of a bundle.
ViewerKeptAttributes ==
  /\ servedHolder
  /\ prevUserAttributesMap.map[last.docSession].rows = <<docData.attrVal>>
  /\ last.result = "ok"
  /\ Len(last.emitted) = 2


(***************************************************************************)
(* Properties of sessions that view the document as another user           *)
(* (SpecUsers).                                                            *)
(***************************************************************************)
\* The last call was made on a session with an impersonation link parameter.
impersonating == last.op # "connect" /\ last.docSession.aclAsUserId # 0

\* C23: a session with an impersonation link parameter whose own role is not
\* owner gets ACL_DENY on every action and access query; for an owner session
\* the role and the identity resolved are those of the user viewed as, the
\* role being none (null) when that user is not known.
ImpersonationOwnersOnly ==
  impersonating =>
    IF last.docSession.access # "owners" THEN last.result = "ACL_DENY"
    ELSE (last.resolved /\ last.result \notin {"ruleError"}) =>
           /\ last.access = (IF last.docSession.aclAsUserId = 42 THEN docData.homeAccess
                             ELSE "null")
           /\ last.userId = (IF last.docSession.aclAsUserId = 42 THEN 42 ELSE 0)

\* What the code does for such a session: every call that resolves the user
\* of a non-owner fails, with the plain error of line 940 or, for the actions
\* that need full access, never with success; an owner's calls see the role
\* and identity of the user viewed as.
ImpersonationResolved ==
  impersonating =>
    IF last.docSession.access # "owners"
    THEN last.resolved => last.result = "Error: only an owner can override user"
    ELSE (last.resolved /\ last.result \notin {"ruleError"}) =>
           /\ last.access = (IF last.docSession.aclAsUserId = 42 THEN docData.homeAccess
                             ELSE "null")
           /\ last.userId = (IF last.docSession.aclAsUserId = 42 THEN 42 ELSE 0)
           /\ last.op = "isOwner" => (last.result = "true" <=> last.access = "owners")

\* An owner viewing as an unknown user is not an owner, and is denied an action.
OwnerAsUnknownDenied ==
  /\ impersonating /\ last.docSession.access = "owners"
  /\ last.docSession.aclAsUserId = 99
  /\ last.op = "assertCanMaybeApplyUserAction" /\ last.result = "ACL_DENY"
  /\ last.access = "null"

\* A non-owner viewing as another user had an action accepted.
ImpersonatorAccepted ==
  /\ impersonating /\ last.docSession.access # "owners"
  /\ last.op = "assertCanMaybeApplyUserAction" /\ last.result = "true"


(***************************************************************************)
(* Properties of the cache of the steps (SpecSteps).                       *)
(***************************************************************************)
\* C31: the steps are computed at most once per bundle: once _steps is set, a
\* request for the steps starts no computation and returns what the first
\* request got, the failure of the first request included, until
\* finishedBundle discards them.
StepsComputedOnce ==
  [][(steps.has /\ last'.op = "_getSteps") =>
       /\ steps' = steps
       /\ last'.result = (IF steps.failed THEN "Error: no active bundle (steps)" ELSE "ok")]_vars

\* The steps computed before the bundle was applied were requested again after.
StepsReusedAfterApplied ==
  /\ last.op = "_getSteps" /\ last.result = "ok"
  /\ activeBundle.active /\ activeBundle.applied
  /\ steps.has /\ ~steps.applied
  /\ Len(steps.list) >= 2


(***************************************************************************)
(* Properties of appliedBundle (SpecAttrs).                                *)
(***************************************************************************)
\* The DocActions of the active bundle touch the source table of a user attribute.
touchesAttributes ==
  \E i \in 1..Len(activeBundle.docActions) :
    activeBundle.docActions[i].tableId \in UserAttributeTables(ruler.rc)

\* The DocActions of the active bundle contain a schema action.
hasSchemaAction ==
  \E i \in 1..Len(activeBundle.docActions) : isSchemaAction(activeBundle.docActions[i])

\* C32, as stated: appliedBundle sets applied; puts the attributes aside and
\* installs an empty map when the bundle touches an attribute table; and
\* leaves the cache of the Ruler empty when it touches one or has a schema action.
AppliedBundleEffects ==
  [][(last'.op = "appliedBundle" /\ activeBundle.active) =>
       /\ activeBundle'.applied
       /\ touchesAttributes =>
            /\ prevUserAttributesMap' = [has |-> TRUE, map |-> userAttributesMap]
            /\ userAttributesMap' = EmptyMap
       /\ (touchesAttributes \/ hasSchemaAction) => ruler'.cache = {}]_vars

\* C32, as the code has it: appliedBundle sets applied; when the Ruler has
\* rules it puts the attributes aside and installs an empty map for a bundle
\* that touches an attribute table, and clears the cache of the Ruler for one
\* that touches an attribute table or has a schema action; it changes nothing
\* else, and nothing but applied when the Ruler has no rules.
AppliedBundleEffectsWithRules ==
  [][(last'.op = "appliedBundle" /\ activeBundle.active) =>
       /\ activeBundle' = [activeBundle EXCEPT !.applied = TRUE]
       /\ ruler'.rc = ruler.rc
       /\ IF ~(1 \in ruler.rc.rules \/ 3 \in ruler.rc.rules)
          THEN UNCHANGED <<userAttributesMap, prevUserAttributesMap, ruler>>
          ELSE /\ IF touchesAttributes
                  THEN /\ prevUserAttributesMap' = [has |-> TRUE, map |-> userAttributesMap]
                       /\ userAttributesMap' = EmptyMap
                  ELSE UNCHANGED <<userAttributesMap, prevUserAttributesMap>>
               /\ ruler'.cache = IF touchesAttributes \/ hasSchemaAction THEN {}
                                 ELSE ruler.cache]_vars

\* A schema change was applied under rules, with nothing left in either cache
\* of the sessions served before.
SchemaChangeApplied ==
  /\ last.op = "appliedBundle"
  /\ activeBundle.active /\ activeBundle.applied
  /\ hasSchemaAction /\ ~touchesAttributes
  /\ 1 \in ruler.rc.rules
  /\ ruler.cache = {}
  /\ DOMAIN userAttributesMap # {}

(***************************************************************************)
(* Properties of finishedBundle (SpecAttrs).                               *)
(***************************************************************************)
\* The DocActions of the active bundle touch a table of the rules.
hasAclAction ==
  \E i \in 1..Len(activeBundle.docActions) :
    activeBundle.docActions[i].tableId \in {"_grist_ACLRules", "_grist_ACLResources"}

\* C33, as stated: finishedBundle of an applied bundle with an action on an ACL
\* table or a schema action leaves a Ruler built from the DocData and both
\* caches empty; finishedBundle of a bundle never applied leaves the Ruler and
\* both caches as they were.
FinishedRebuildsRules ==
  [][(last'.op = "finishedBundle" /\ activeBundle.active) =>
       /\ (activeBundle.applied /\ (hasAclAction \/ hasSchemaAction)) =>
            /\ ruler' = [rc |-> docData.meta, cache |-> {}]
            /\ userAttributesMap' = EmptyMap
       /\ ~activeBundle.applied => UNCHANGED <<ruler, userAttributesMap>>]_vars

\* C33, as the code has it: finishedBundle leaves a Ruler built from the DocData
\* and both caches empty for an applied bundle with an action on an ACL table,
\* or with a schema action when the Ruler has rules; for every other bundle,
\* applied or not, it leaves the Ruler and both caches as they were.
FinishedRebuildsRulesInForce ==
  [][(last'.op = "finishedBundle" /\ activeBundle.active) =>
       IF /\ activeBundle.applied
          /\ \/ hasAclAction
             \/ hasSchemaAction /\ (1 \in ruler.rc.rules \/ 3 \in ruler.rc.rules)
       THEN /\ ruler' = [rc |-> docData.meta, cache |-> {}]
            /\ userAttributesMap' = EmptyMap
       ELSE UNCHANGED <<ruler, userAttributesMap>>]_vars

\* The bundle that removed the user-attribute rule was finished: the Ruler has
\* the rules of the document, without that rule.
RulesRebuiltAfterBundle ==
  /\ last.op = "finishedBundle" /\ last.result = "ok"
  /\ ~activeBundle.active
  /\ 2 \notin ruler.rc.rules /\ 1 \in ruler.rc.rules
  /\ ruler.rc = docData.meta
  /\ ruler.cache = {} /\ userAttributesMap = EmptyMap

(***************************************************************************)
(* The steps and the bundle they belong to (SpecSteps).                    *)
(***************************************************************************)
\* C37: the steps never outlive or predate their bundle: _steps is null when a
\* bundle has just begun, and the steps held while a bundle is active are the
\* outcome of a computation on the DocActions of that bundle, also after a
\* request for the steps made with no bundle, a finishedBundle and a begin.
StepsBelongToBundle ==
  /\ (last.op = "getGranularAccessForBundle" /\ last.result = "ok") => ~steps.has
  /\ (activeBundle.active /\ steps.has) =>
       /\ ~steps.failed
       /\ Len(steps.list) = Len(activeBundle.docActions)
       /\ \A k \in 1..Len(steps.list) : steps.list[k].action = activeBundle.docActions[k]

(***************************************************************************)
(* Calls that fail (Spec).                                                 *)
(***************************************************************************)
\* C40: canApplyBundle, appliedBundle and sendDocUpdateForBundle called with no
\* active bundle fail with an error and change nothing in the engine; a
\* canApplyBundle that fails with ACL_DENY or ApiError 400 leaves the bundle as
\* it was, active, not applied if it was not, with the same
\* hasDeliberateRuleChange; and a bundle stays as it is on every call but
\* appliedBundle and finishedBundle.
FailedCallsChangeNothing ==
  [][/\ (last'.op \in {"canApplyBundle", "appliedBundle", "sendDocUpdateForBundle"}
           /\ ~activeBundle.active) =>
          /\ last'.result = "Error: no active bundle"
          /\ UNCHANGED <<activeBundle, steps, userAttributesMap, prevUserAttributesMap,
                         ruler, docData, recoveryMode>>
     /\ (last'.op = "canApplyBundle" /\ last'.result \in {"ACL_DENY", "ApiError 400"}) =>
          /\ activeBundle.active /\ activeBundle'.active
          /\ activeBundle'.applied = activeBundle.applied
          /\ activeBundle'.hasDeliberateRuleChange = activeBundle.hasDeliberateRuleChange
          /\ activeBundle' = activeBundle
     /\ (activeBundle.active /\ activeBundle' # activeBundle) =>
          last'.op \in {"appliedBundle", "finishedBundle"}]_vars

\* A bundle with a deliberate change of the rules was denied to a session that
\* is not an owner's, and is still the active bundle, not applied.
DeniedBundleStillActive ==
  /\ last = Call("canApplyBundle", "ACL_DENY")
  /\ activeBundle.active /\ ~activeBundle.applied
  /\ activeBundle.hasDeliberateRuleChange
  /\ ~verified

(***************************************************************************)
(* finishedBundle and a rebuild of the rules that fails (SpecRebuild).     *)
(***************************************************************************)
\* C38: finishedBundle on an active bundle leaves no bundle, no steps and no
\* attributes put aside, also when the rebuild of the rules fails, and the
\* begin that follows a finishedBundle is not rejected as overlapping.
FinishedDiscardsOnFailure ==
  [][/\ (last'.op = "finishedBundle" /\ activeBundle.active) =>
          /\ ~activeBundle'.active
          /\ ~steps'.has
          /\ ~prevUserAttributesMap'.has
     /\ (last.op = "finishedBundle" /\ last'.op = "getGranularAccessForBundle") =>
          last'.result = "ok"]_vars

(***************************************************************************)
(* Properties of the rows of newRec (SpecNewRec).                          *)
(***************************************************************************)
\* The id, after the steps up to i, of the table the action at k is on.
RECURSIVE tableIdAfter(_, _)
tableIdAfter(k, i) ==
  IF i <= k THEN steps.list[k].action.tableId
  ELSE IF /\ steps.list[i].action.name = "RenameTable"
          /\ steps.list[i].action.tableId = tableIdAfter(k, i - 1)
       THEN steps.list[i].action.newId
  ELSE tableIdAfter(k, i - 1)

\* The steps after k, RenameTable left out, whose action is on the table of k.
laterStepsOfTable(k) ==
  { i \in (k + 1)..Len(steps.list) :
      /\ steps.list[i].action.name # "RenameTable"
      /\ steps.list[i].action.tableId = tableIdAfter(k, i - 1) }

\* C34: the rows of newRec for the action at k are rowsAfter of the last later
\* step on the same table, followed through RenameTable, the RenameTable steps
\* left out, and of step k when there is none; they are kept in rowsLast of
\* step k, no other step changes, and a later request returns the same rows.
NewRecFromLastStepOfTable ==
  [][last'.op = "_getRowsForRecAndNewRec" =>
       LET k == last'.actionIdx
           j == IF laterStepsOfTable(k) = {} THEN k
                ELSE CHOOSE i \in laterStepsOfTable(k) : \A h \in laterStepsOfTable(k) : h <= i
       IN /\ last'.rowsAfter = steps.list[j].rowsAfter
          /\ last'.rowsBefore = steps.list[k].rowsBefore
          /\ steps'.list = [steps.list EXCEPT ![k].rowsLast = steps.list[j].rowsAfter]
          /\ (steps.list[k].rowsLast # NoRows) => steps.list[k].rowsLast = last'.rowsAfter]_vars

\* The rows of newRec were taken across a RenameTable: from a later step, a
\* schema action on the new id of the table.
NewRecAcrossRename ==
  /\ last.op = "_getRowsForRecAndNewRec"
  /\ last.actionIdx = 1
  /\ Len(steps.list) = 3
  /\ steps.list[2].action.name = "RenameTable"
  /\ steps.list[2].action.tableId = steps.list[1].action.tableId
  /\ steps.list[3].action.name = "AddColumn"
  /\ steps.list[3].action.tableId = steps.list[2].action.newId
  /\ last.rowsAfter = steps.list[3].rowsAfter
  /\ steps.list[1].rowsLast = steps.list[3].rowsAfter

(***************************************************************************)
(* The record of a manualSort column in the metadata (SpecMeta).           *)
(***************************************************************************)
\* The records of _grist_Tables_column of the manualSort columns.
manualSortColumns == { id \in DOMAIN MetaColumns : MetaColumns[id].colId = "manualSort" }

\* The read permission of the viewer on the table of a column record.
parentTableRead(id) ==
  TableAccess(ruler.rc, last.docSession, "read",
              MetaTablesTable[MetaColumns[id].parentId].tableId)

\* C35, as stated: the record of a manualSort column is never censored: it
\* is returned with its cells as they are, whatever the read permission of the
\* table or of the column.
ManualSortNeverCensored ==
  (last.op = "filterMetaTables" /\ last.result = "ok") =>
     \A id \in manualSortColumns : last.tables.Columns[id] = last.given.Columns[id]

\* C35, as the code has it: the record of a manualSort column is censored
\* exactly when the viewer is denied the read of its table (and cannot read
\* everything); a denial of the column alone leaves it as it is.
ManualSortCensoredWithTable ==
  (last.op = "filterMetaTables" /\ last.result = "ok") =>
     \A id \in manualSortColumns :
       IF parentTableRead(id) = "deny"
       THEN /\ last.tables.Columns[id].colId = ""
            /\ last.tables.Columns[id].parentId = 0
            /\ last.tables.Columns[id].label = ""
       ELSE last.tables.Columns[id] = last.given.Columns[id]

\* A viewer denied every column of "R" but `a` was given the record of the
\* manualSort column of "R" as it is, and the record of column `b` blanked.
ManualSortKeptColumnDenied ==
  /\ last.op = "filterMetaTables" /\ last.result = "ok"
  /\ 5 \in ruler.rc.rules /\ ~isOwner(last.docSession)
  /\ last.tables.Columns[4] = MetaColumns[4]
  /\ last.tables.Columns[3].colId = ""

(***************************************************************************)
(* CensorshipInfo.apply on the actions of the ACL tables (SpecApply).      *)
(***************************************************************************)
onAclTable == last.given.tableId \in {"_grist_ACLRules", "_grist_ACLResources"}

\* C36, as stated: apply on an action of an ACL table for a viewer without the
\* AccessRules permission leaves the action without row ids and without
\* columns and returns true; with the permission it leaves the action as it
\* was and returns true.
AclActionEmptiedAndKept ==
  (last.op = "apply" /\ onAclTable) =>
     /\ last.returned
     /\ IF last.canViewACLs THEN last.action = last.given
        ELSE last.action.rowIds = <<>> /\ DOMAIN last.action.colValues = {}

\* C36, as the code has it: apply on an action of an ACL table returns true with
\* the AccessRules permission and false without it; without it a TableData
\* action is left without row ids and without columns; every other action,
\* and every action with the permission, is left as it was.
AclActionKeptWithPermission ==
  (last.op = "apply" /\ onAclTable) =>
     /\ last.returned = last.canViewACLs
     /\ IF ~last.canViewACLs /\ last.given.name = "TableData"
        THEN /\ last.action.rowIds = <<>> /\ DOMAIN last.action.colValues = {}
             /\ last.action.name = "TableData" /\ last.action.tableId = last.given.tableId
        ELSE last.action = last.given

\* The TableData of _grist_ACLRules with two rules was emptied for a viewer
\* without the permission, and apply returned false.
AclTableDataEmptied ==
  /\ last.op = "apply"
  /\ last.given.tableId = "_grist_ACLRules" /\ last.given.name = "TableData"
  /\ Len(last.given.rowIds) = 2
  /\ ~last.canViewACLs /\ ~last.returned
  /\ last.action.rowIds = <<>>

(***************************************************************************)
(* The steps before and after the commit (SpecReplay).                     *)
(***************************************************************************)
\* The rows of a snapshot, by id: the order of the rows is left out.
rowsById(d) == [id \in idsOf(d) |-> [c \in DOMAIN d.colValues |-> cellOf(d, id, c)]]

\* Two lists of steps have the same actions and the same rows before and after.
sameSteps(p, q) ==
  /\ Len(p) = Len(q)
  /\ \A k \in 1..Len(p) :
       /\ p[k].action = q[k].action
       /\ rowsById(p[k].rowsBefore) = rowsById(q[k].rowsBefore)
       /\ rowsById(p[k].rowsAfter) = rowsById(q[k].rowsAfter)

\* C39: the steps of a bundle do not depend on when they are computed: the
\* steps held once the bundle is applied, computed before the commit or
\* after, have the rows that a computation after the commit gives.
StepsSameBeforeAndAfterCommit ==
  (steps.has /\ activeBundle.applied) =>
     sameSteps(steps.list, getUncachedRowSteps(activeBundle, docData.rows))

=============================================================================
